---------------------------- MODULE Spec2Model ----------------------------
(***************************************************************************)
(* A model of the family_boggle backend: the lobby table of GameEngine,    *)
(* the websocket handlers of main.py, the per-lobby timer task             *)
(* run_game_loop, the PowerUpManager and the path check of BoggleBoard.    *)
(*                                                                         *)
(* Rows and columns are 0-based as in the Python source; a grid is a       *)
(* sequence of rows, so the tile at (r, c) is grid[r + 1][c + 1].  A word  *)
(* is a sequence of one-character strings.                                 *)
(***************************************************************************)
EXTENDS Integers, Sequences, FiniteSets, TLC

(***************************************************************************)
(* Bounds of the model.                                                    *)
(***************************************************************************)
\* Frames and connection events (connect, disconnect) that change the server's
\* state in a run.
MaxFrames == 4
\* settings.GAME_DURATION_SECONDS: read from the environment
\* (BOGGLE_GAME_DURATION_SECONDS), the length of a round for sizes other than 4.
GAME_DURATION_SECONDS == 2
\* The longest path handed to is_word_on_board, and the longest word handed
\* to calculate_word_score, when the two functions are called on their own.
MaxPathLen == 4
MaxWordLen == 8

(***************************************************************************)
(* Program constants.                                                      *)
(***************************************************************************)
FourByFourDuration == 120
CountdownFrom == 3
FreezeBonusSeconds == 10
MaxPlayers == 10
DEFAULT_BOARD_SIZE == 6
BlowupSize == 6
BlowupCells == 4
PowerupWordLength == 5
MinWordLength == 3

LobbyIds == {"L1", "L2"}
PlayerIds == {"p1", "p2"}
\* The sizes a set_board_size frame carries in the model.
Sizes == {5, 6}
Modes == {"create", "join"}
\* The run_game_loop coroutines that can be alive at one time.
TaskIds == {1, 2}

None == "None"
\* GameEngine.board_gen before the first start_game: None.
NoBoardGen == [size |-> 0, grid |-> << >>]

(***************************************************************************)
(* Boards.  generate() rolls the dice of the size; the model draws the     *)
(* result from grids that the dice of that size roll and that pass         *)
(* _is_board_quality_acceptable and the Q-U check.                         *)
(***************************************************************************)
BoardA5 ==
  << <<"S","T","O","U","I">>, <<"E","N","O","S","M">>, <<"A","N","E","O","P">>,
     <<"J","E","E","H","F">>, <<"I","H","E","P","A">> >>
BoardB5 ==
  << <<"S","T","O","A","E">>, <<"E","N","O","F","W">>, <<"I","A","C","H","M">>,
     <<"T","E","B","E","R">>, <<"L","R","C","D","A">> >>
BoardA6 ==
  << <<"S","T","O","U","S","I">>, <<"E","N","A","O","S","E">>,
     <<"A","S","N","Q","D","T">>, <<"S","T","P","C","U","X">>,
     <<"E","D","T","O","A","R">>, <<"D","E","Y","E","A","A">> >>
BoardB6 ==
  << <<"S","T","O","U","U","A">>, <<"E","N","C","E","U","L">>,
     <<"I","F","T","W","O","I">>, <<"A","A","S","P","M","D">>,
     <<"S","A","H","R","A","S">>, <<"N","O","I","R","X","S">>  >>

AllBoards == {BoardA5, BoardB5, BoardA6, BoardB6}

\* BoggleBoard.generate(): the grids a board of this size may end with.
Generate(size) == {g \in AllBoards : Len(g) = size}

\* BoggleBoard(size): the generator object after __init__ ran generate().
BoggleBoard(size, grid) == [size |-> size, grid |-> grid]

(***************************************************************************)
(* Words.                                                                  *)
(***************************************************************************)
\* str.upper() on the characters the model's frames carry.
UpperChar(ch) ==
  CASE ch = "t" -> "T"
    [] ch = "e" -> "E"
    [] ch = "a" -> "A"
    [] OTHER -> ch

Upper(word) == [i \in 1..Len(word) |-> UpperChar(word[i])]

\* DictionaryValidator._word_set: the words of the list the model uses.
WordSet ==
  { <<"T","O">>, <<"T","E","A">>, <<"S","T","O","N","E">>, <<"T","O","N","E","S">> }

\* DictionaryValidator.is_valid_word
IsValidWord(word) ==
  LET w == Upper(word) IN Len(w) >= MinWordLength /\ w \in WordSet

Abs(x) == IF x < 0 THEN -x ELSE x

\* is_word_on_board without the test of the step from the cell before.
IsWordOnBoardAnyStep(bg, word, path) ==
  /\ Len(word) = Len(path)
  /\ LET w == Upper(word) IN
     \A i \in 1..Len(path) :
        LET r == path[i][1]
            c == path[i][2]
        IN /\ 0 <= r /\ r < bg.size /\ 0 <= c /\ c < bg.size
           /\ \A j \in 1..(i - 1) : path[j] # path[i]
           /\ bg.grid[r + 1][c + 1] = w[i]

\* BoggleBoard.is_word_on_board: the loop returns False at the first cell that
\* fails a test, so the result is the conjunction of the tests over the cells.
IsWordOnBoard(bg, word, path) ==
  /\ Len(word) = Len(path)
  /\ LET w == Upper(word) IN
     \A i \in 1..Len(path) :
        LET r == path[i][1]
            c == path[i][2]
        IN /\ 0 <= r /\ r < bg.size /\ 0 <= c /\ c < bg.size
           /\ \A j \in 1..(i - 1) : path[j] # path[i]
           /\ bg.grid[r + 1][c + 1] = w[i]
           /\ i > 1 => /\ Abs(r - path[i - 1][1]) <= 1
                       /\ Abs(c - path[i - 1][2]) <= 1

(***************************************************************************)
(* Scoring.                                                                *)
(***************************************************************************)
LetterScore(ch) ==
  CASE ch \in {"A","E","I","O","N","R","T","L","S"} -> 1
    [] ch \in {"D","G","U","C","M","P","B"} -> 2
    [] ch \in {"H","F","W","Y","V","K"} -> 3
    [] ch \in {"J","X"} -> 5
    [] ch \in {"Q","Z"} -> 8
    [] OTHER -> 0

RECURSIVE BaseScore(_)
BaseScore(word) ==
  IF word = << >> THEN 0 ELSE LetterScore(Head(word)) + BaseScore(Tail(word))

\* The multiplier in tenths: 0.0, 1.0, 1.2, 1.5, 2.0, 3.0.
MultiplierTenths(length) ==
  IF length < 3 THEN 0
  ELSE IF length = 3 THEN 10
  ELSE IF length = 4 THEN 12
  ELSE IF length = 5 THEN 15
  ELSE IF length = 6 THEN 20
  ELSE 30

\* The score converted to an integer once, after both factors.
CalculateWordScoreOneFloor(word, is_unique) ==
  LET w == Upper(word)
      tenths == BaseScore(w) * MultiplierTenths(Len(w))
  IN IF is_unique /\ tenths >= 10 THEN (tenths * 15) \div 100 ELSE tenths \div 10

\* calculate_word_score: int() truncates, which is the floor of a value >= 0.
CalculateWordScore(word, is_unique) ==
  LET w == Upper(word)
      total == (BaseScore(w) * MultiplierTenths(Len(w))) \div 10
  IN IF is_unique /\ total > 0 THEN (total * 15) \div 10 ELSE total

(***************************************************************************)
(* The frames of the model: submit_word data, and the cells blowup draws.  *)
(***************************************************************************)
Sub(word, path) == [word |-> word, path |-> path]

PathTea == << <<0,1>>, <<1,0>>, <<2,0>> >>
PathStone == << <<0,0>>, <<0,1>>, <<0,2>>, <<1,1>>, <<1,0>> >>
PathTones == << <<0,1>>, <<0,2>>, <<1,1>>, <<1,0>>, <<0,0>> >>

Submissions ==
  { Sub(<<"T","E","A">>, PathTea),
    Sub(<<"t","e","a">>, PathTea),
    Sub(<<"S","T","O","N","E">>, PathStone),
    Sub(<<"T","O","N","E","S">>, PathTones),
    \* on the board and in the word list, too short
    Sub(<<"T","O">>, << <<0,1>>, <<0,2>> >>),
    \* on the board, not a word
    Sub(<<"T","N","E">>, << <<0,1>>, <<1,1>>, <<1,0>> >>),
    \* the letters match, the last step is not adjacent
    Sub(<<"T","E","A">>, << <<0,1>>, <<1,0>>, <<4,4>> >>),
    \* a cell used twice, and a column left of the board
    Sub(<<"T","E","T">>, << <<0,1>>, <<1,0>>, <<0,1>> >>),
    Sub(<<"T","E","A">>, << <<0,1>>, <<1,0>>, <<1,-1>> >>) }

\* random.randint draws until 4 distinct cells of a 6 x 6 square are held.
BlowupChoices ==
  { cells \in { { <<0,0>>, <<1,2>>, <<3,3>>, <<2,1>> },
                { <<5,5>>, <<0,5>>, <<4,1>>, <<2,2>> } } :
      /\ Cardinality(cells) = BlowupCells
      /\ \A c \in cells : c[1] \in 0..(BlowupSize - 1) /\ c[2] \in 0..(BlowupSize - 1) }

PowerupKinds == {"freeze", "blowup", "shuffle", "lock"}
\* random.choice(["freeze", "blowup", "shuffle"])
EarnedKinds == {"freeze", "blowup", "shuffle"}

(***************************************************************************)
(* State.                                                                  *)
(***************************************************************************)
VARIABLES
  objs,            \* the GameStateModel objects, by object identity
  lobbies,         \* GameEngine.lobbies: lobby id -> object
  board_gen,       \* GameEngine.board_gen: the engine's one BoggleBoard
  armed_locks,     \* PowerUpManager.armed_locks: lobby id -> player id -> board
  player_boards,   \* PowerUpManager.player_boards: lobby id -> player id -> board
  active_freezes,  \* PowerUpManager.active_freezes: lobby id -> player ids
  blocked_cells,   \* PowerUpManager.blocked_cells: lobby id -> cells
  game_challenges, \* ChallengeManager.game_challenges: its keys
  conns,           \* the websocket handlers in their receive loop
  tasks,           \* the run_game_loop coroutines
  frames,          \* the frames and connection events that changed the state so far
  pub,             \* per lobby id, {the timer of the round's last timer_update}
  ev               \* what the last step sent: a word_result, a timer_update, a board_update

vars == << objs, lobbies, board_gen, armed_locks, player_boards, active_freezes,
           blocked_cells, game_challenges, conns, tasks, frames, pub, ev >>

\* A lobby id holds one object in the table, and each task may hold one more.
ObjIds == 1..(Cardinality(LobbyIds) + Cardinality(TaskIds))

\* The server's state without the model's own bookkeeping.
core == << objs, lobbies, board_gen, armed_locks, player_boards, active_freezes,
           blocked_cells, game_challenges, conns, tasks >>

\* frames after a handler ran: a frame that changed nothing is not counted.
Counted == IF core' # core THEN frames + 1 ELSE frames

Free == [status |-> "free"]
Idle == [lid |-> None, obj |-> 0, pc |-> "idle", i |-> 0]
EmptyDict == [x \in {} |-> None]

Put(d, k, v) == [x \in (DOMAIN d) \cup {k} |-> IF x = k THEN v ELSE d[x]]
Del(d, k) == [x \in (DOMAIN d) \ {k} |-> d[x]]

\* What a step that sends no word_result, no timer_update and no
\* board_update leaves in ev.
NoEvent ==
  [type |-> "none", lid |-> None, pid |-> None, sub |-> [word |-> << >>, path |-> << >>], valid |-> FALSE,
   points |-> 0, powerup |-> None, timer |-> 0, prev |-> {},
   status |-> None, protected |-> EmptyDict, overridden |-> {},
   total_score |-> 0, score_update |-> {}]

\* The player's time state, which run_game_loop and the want_play_again and
\* use_powerup frames read and set: no bonus time, time not up, no wish to play
\* again.
PlayerTimeFields ==
  [bonus_time |-> 0, is_time_up |-> FALSE, wants_play_again |-> FALSE]

\* PlayerModel(id=..., is_ready=False) with the defaults of its other fields.
\* sent_play_again is history, not a field of the program: whether the player
\* has sent want_play_again since the lobby last entered summary.
NewPlayer(pid) ==
  [id |-> pid, is_ready |-> FALSE, score |-> 0, powerups |-> << >>,
   found_words |-> << >>,
   bonus_time |-> PlayerTimeFields.bonus_time,
   is_time_up |-> PlayerTimeFields.is_time_up,
   wants_play_again |-> PlayerTimeFields.wants_play_again,
   sent_play_again |-> FALSE]

\* GameStateModel(lobby_id, status="lobby", host_id, players=[host])
NewLobby(lid, host) ==
  [lobby_id |-> lid, status |-> "lobby", board |-> << >>,
   board_size |-> DEFAULT_BOARD_SIZE, timer |-> 0,
   players |-> << NewPlayer(host) >>, host_id |-> host, challenges |-> FALSE]

HasPlayer(players, pid) == \E i \in 1..Len(players) : players[i].id = pid

\* next((p for p in lobby.players if p.id == player_id), None): the first match.
PlayerIndex(players, pid) ==
  IF HasPlayer(players, pid)
  THEN CHOOSE i \in 1..Len(players) :
         /\ players[i].id = pid
         /\ \A j \in 1..(i - 1) : players[j].id # pid
  ELSE 0

AllReady(players) == \A i \in 1..Len(players) : players[i].is_ready

\* An object no table entry and no task holds is collected.
Referenced(o, tbl, tsk) ==
  \/ \E l \in DOMAIN tbl : tbl[l] = o
  \/ \E t \in TaskIds : tsk[t].obj = o

Collect(heap, tbl, tsk) ==
  [o \in ObjIds |-> IF Referenced(o, tbl, tsk) THEN heap[o] ELSE Free]

FreeObj == CHOOSE o \in ObjIds : objs[o] = Free /\ \A q \in ObjIds : objs[q] = Free => o <= q

Init ==
  /\ objs = [o \in ObjIds |-> Free]
  /\ lobbies = EmptyDict
  /\ board_gen = NoBoardGen
  /\ armed_locks = EmptyDict
  /\ player_boards = EmptyDict
  /\ active_freezes = EmptyDict
  /\ blocked_cells = EmptyDict
  /\ game_challenges = {}
  /\ conns = {}
  /\ tasks = [t \in TaskIds |-> Idle]
  /\ frames = 0
  /\ pub = [l \in LobbyIds |-> {}]
  /\ ev = NoEvent

(***************************************************************************)
(* GameEngine: the lobby table.                                            *)
(***************************************************************************)
\* GameEngine.join_lobby: the player list after the call, and its result.
JoinLobbyOk(lobby) == Len(lobby.players) < MaxPlayers

\* join_lobby without the test for a player of the same id.
JoinLobbyPlayersDuplicated(lobby, pid) ==
  IF Len(lobby.players) >= MaxPlayers THEN lobby.players
  ELSE Append(lobby.players, NewPlayer(pid))

\* join_lobby without the test of the number of players.
JoinLobbyPlayersUncapped(lobby, pid) ==
  IF HasPlayer(lobby.players, pid) THEN lobby.players
  ELSE Append(lobby.players, NewPlayer(pid))

JoinLobbyPlayers(lobby, pid) ==
  IF Len(lobby.players) >= MaxPlayers THEN lobby.players
  ELSE IF HasPlayer(lobby.players, pid) THEN lobby.players
  ELSE Append(lobby.players, NewPlayer(pid))

\* leave_lobby with the host's place given to the player who joined last.
LeaveLobbyLatestHost(lobby, pid) ==
  LET left == SelectSeq(lobby.players, LAMBDA p : p.id # pid)
  IN IF left = << >> THEN [lobby EXCEPT !.players = left]
     ELSE [lobby EXCEPT !.players = left,
                        !.host_id = IF lobby.host_id = pid THEN left[Len(left)].id
                                    ELSE lobby.host_id]

\* GameEngine.leave_lobby on a lobby of the table: the object after the call.
LeaveLobby(lobby, pid) ==
  LET left == SelectSeq(lobby.players, LAMBDA p : p.id # pid)
  IN IF left = << >> THEN [lobby EXCEPT !.players = left]
     ELSE [lobby EXCEPT !.players = left,
                        !.host_id = IF lobby.host_id = pid THEN left[1].id
                                    ELSE lobby.host_id]

\* websocket_endpoint up to its receive loop.
Connect(lid, pid, mode) ==
  /\ frames < MaxFrames
  /\ << lid, pid >> \notin conns
  /\ Cardinality(conns) < Cardinality(PlayerIds)
  /\ ev' = NoEvent
  /\ UNCHANGED << board_gen, armed_locks, player_boards, active_freezes,
                  blocked_cells, game_challenges, tasks, pub >>
  /\ IF lid \notin DOMAIN lobbies
     THEN IF mode = "join"
          THEN \* close(1008, "Lobby not found")
               UNCHANGED << objs, lobbies, conns >>
          ELSE /\ objs' = [objs EXCEPT ![FreeObj] = NewLobby(lid, pid)]
               /\ lobbies' = Put(lobbies, lid, FreeObj)
               /\ conns' = conns \cup { << lid, pid >> }
     ELSE LET lobby == objs[lobbies[lid]] IN
          IF JoinLobbyOk(lobby)
          THEN /\ objs' = [objs EXCEPT ![lobbies[lid]].players =
                                          JoinLobbyPlayers(lobby, pid)]
               /\ conns' = conns \cup { << lid, pid >> }
               /\ UNCHANGED lobbies
          ELSE \* close(1008, "Lobby full or error joining")
               UNCHANGED << objs, lobbies, conns >>
  /\ frames' = Counted

\* The WebSocketDisconnect handler of websocket_endpoint.
Disconnect(lid, pid) ==
  /\ frames < MaxFrames
  /\ << lid, pid >> \in conns
  /\ conns' = conns \ { << lid, pid >> }
  /\ ev' = NoEvent
  /\ UNCHANGED << board_gen, armed_locks, player_boards, active_freezes,
                  blocked_cells, game_challenges, tasks, pub >>
  /\ IF lid \notin DOMAIN lobbies
     THEN UNCHANGED << objs, lobbies >>
     ELSE LET o == lobbies[lid]
              after == LeaveLobby(objs[o], pid)
              tbl == IF after.players = << >> THEN Del(lobbies, lid) ELSE lobbies
          IN /\ lobbies' = tbl
             /\ objs' = Collect([objs EXCEPT ![o] = after], tbl, tasks)
  /\ frames' = Counted

(***************************************************************************)
(* PowerUpManager.                                                         *)
(***************************************************************************)
Entries(d, lid) == IF lid \in DOMAIN d THEN d[lid] ELSE EmptyDict

\* PowerUpManager.arm_lock: armed_locks after the call (a copy of the rows).
ArmLock(armed, lid, pid, current_board) ==
  Put(armed, lid, Put(Entries(armed, lid), pid, current_board))

\* consume_locks that empties the armed locks without installing the boards.
ConsumeLocksDropped(armed, boards, lid) ==
  IF lid \notin DOMAIN armed
  THEN [armed |-> armed, boards |-> boards, protected |-> EmptyDict]
  ELSE [armed |-> Put(armed, lid, EmptyDict), boards |-> boards,
        protected |-> armed[lid]]

\* PowerUpManager.consume_locks: the two maps after the call and the result.
ConsumeLocks(armed, boards, lid) ==
  IF lid \notin DOMAIN armed
  THEN [armed |-> armed, boards |-> boards, protected |-> EmptyDict]
  ELSE LET protected == armed[lid]
           mine == Entries(boards, lid)
       IN [armed |-> Put(armed, lid, EmptyDict),
           boards |-> Put(boards, lid,
                          [q \in (DOMAIN mine) \cup (DOMAIN protected) |->
                             IF q \in DOMAIN protected THEN protected[q] ELSE mine[q]]),
           protected |-> protected]

\* PowerUpManager.get_player_board
GetPlayerBoard(boards, lid, pid, default_board) ==
  IF lid \in DOMAIN boards /\ pid \in DOMAIN boards[lid]
  THEN boards[lid][pid]
  ELSE default_board

\* sync_player_to_lobby_board that leaves the player's board in place.
SyncPlayerKept(boards, lid, pid) == boards

\* PowerUpManager.sync_player_to_lobby_board: player_boards after the call.
SyncPlayerToLobbyBoard(boards, lid, pid) ==
  IF lid \in DOMAIN boards /\ pid \in DOMAIN boards[lid]
  THEN Put(boards, lid, Del(boards[lid], pid))
  ELSE boards

RECURSIVE SyncAll(_, _, _)
SyncAll(boards, lid, pids) ==
  IF pids = {} THEN boards
  ELSE LET q == CHOOSE x \in pids : TRUE
       IN SyncAll(SyncPlayerToLobbyBoard(boards, lid, q), lid, pids \ {q})

\* PowerUpManager.consume_locks_for_shuffle, which main.py calls on a shuffle:
\* the armed snapshots become the protected players' boards, every other
\* player is synced back to the lobby board, and the protected boards are
\* returned.
ConsumeLocksForShuffle(armed, boards, lid) ==
  LET c == ConsumeLocks(armed, boards, lid)
      others == (DOMAIN Entries(c.boards, lid)) \ (DOMAIN c.protected)
  IN [armed |-> c.armed,
      boards |-> SyncAll(c.boards, lid, others),
      protected |-> c.protected]

(***************************************************************************)
(* The frames a handler receives.                                          *)
(***************************************************************************)
TheLobby(lid) == objs[lobbies[lid]]

\* manager.broadcast(lobby_id, ...): the connections of the lobby.
Recipients(lid) == {c \in conns : c[1] = lid}

FreeTask ==
  CHOOSE t \in TaskIds : tasks[t] = Idle /\ \A u \in TaskIds : tasks[u] = Idle => t <= u

\* GameEngine.toggle_ready
ToggleReadyPlayers(players, pid) ==
  LET k == PlayerIndex(players, pid)
  IN IF k = 0 THEN players
     ELSE [players EXCEPT ![k].is_ready = ~players[k].is_ready]

\* "toggle_ready": the flag flips, and a lobby whose players are all ready gets
\* a run_game_loop task, whatever its status.
ToggleReady(lid, pid) ==
  /\ frames < MaxFrames
  /\ << lid, pid >> \in conns
  /\ LET o == lobbies[lid]
         players == ToggleReadyPlayers(objs[o].players, pid)
         start == AllReady(players) /\ Len(players) >= 1
     IN /\ start => \E t \in TaskIds : tasks[t] = Idle
        /\ objs' = [objs EXCEPT ![o].players = players]
        /\ tasks' = IF start
                    THEN [tasks EXCEPT ![FreeTask] =
                            [lid |-> lid, obj |-> 0, pc |-> "init", i |-> 0]]
                    ELSE tasks
  /\ ev' = NoEvent
  /\ UNCHANGED << lobbies, board_gen, armed_locks, player_boards, active_freezes,
                  blocked_cells, game_challenges, conns, pub >>
  /\ frames' = Counted

\* "set_board_size": the host's frame sets the size, in any status.
SetBoardSize(lid, pid, size) ==
  /\ frames < MaxFrames
  /\ << lid, pid >> \in conns
  /\ LET o == lobbies[lid]
     IN objs' = IF objs[o].host_id = pid
                THEN [objs EXCEPT ![o].board_size = size]
                ELSE objs
  /\ ev' = NoEvent
  /\ UNCHANGED << lobbies, board_gen, armed_locks, player_boards, active_freezes,
                  blocked_cells, game_challenges, conns, tasks, pub >>
  /\ frames' = Counted

\* The lookup of the word as the frame spells it.
AlreadyFoundAsSent(sub, found_words) ==
  \E k \in 1..Len(found_words) : found_words[k] = sub.word

\* GameEngine.submit_word, line 116: the uppercased word is looked up.
AlreadyFound(sub, found_words) ==
  \E k \in 1..Len(found_words) : found_words[k] = Upper(sub.word)

\* submit_word without the test of the lobby's status.
SubmitReasonAnyStatus(lobby, pid, sub) ==
  IF ~HasPlayer(lobby.players, pid) THEN "Player not found"
  ELSE IF AlreadyFound(sub, lobby.players[PlayerIndex(lobby.players, pid)].found_words)
       THEN "Word already found"
  ELSE IF board_gen = NoBoardGen \/ ~IsWordOnBoard(board_gen, Upper(sub.word), sub.path)
       THEN "Word not on board"
  ELSE IF ~IsValidWord(Upper(sub.word)) THEN "Not a valid word"
  ELSE "ok"

\* GameEngine.submit_word up to its last return: the reason of a rejection, or
\* "ok".  The path is checked on the engine's one board_gen.
SubmitReason(lobby, pid, sub) ==
  IF lobby.status # "playing" THEN "Game not in progress"
  ELSE IF ~HasPlayer(lobby.players, pid) THEN "Player not found"
  ELSE IF AlreadyFound(sub, lobby.players[PlayerIndex(lobby.players, pid)].found_words)
       THEN "Word already found"
  ELSE IF board_gen = NoBoardGen \/ ~IsWordOnBoard(board_gen, Upper(sub.word), sub.path)
       THEN "Word not on board"
  ELSE IF ~IsValidWord(Upper(sub.word)) THEN "Not a valid word"
  ELSE "ok"

\* The accepted word appended and its powerup earned, the score left as it was.
AcceptWordUnscored(players, pid, word, earned) ==
  LET k == PlayerIndex(players, pid)
  IN [players EXCEPT
        ![k].found_words = Append(@, word),
        ![k].powerups = IF Len(word) >= PowerupWordLength
                        THEN Append(@, earned) ELSE @]

\* A powerup earned by every accepted word, whatever its length.
AcceptWordAlwaysEarns(players, pid, word, earned) ==
  LET k == PlayerIndex(players, pid)
  IN [players EXCEPT
        ![k].score = @ + CalculateWordScore(word, FALSE),
        ![k].found_words = Append(@, word),
        ![k].powerups = Append(@, earned)]

\* GameEngine.submit_word from line 127 on: the players after an accepted word.
AcceptWord(players, pid, word, earned) ==
  LET k == PlayerIndex(players, pid)
  IN [players EXCEPT
        ![k].score = @ + CalculateWordScore(word, FALSE),
        ![k].found_words = Append(@, word),
        ![k].powerups = IF Len(word) >= PowerupWordLength
                        THEN Append(@, earned) ELSE @]

\* The word appended and scored before the checks of submit_word ran.
SubmitWordPlayersEager(lobby, pid, sub, earned) ==
  IF HasPlayer(lobby.players, pid)
  THEN AcceptWord(lobby.players, pid, Upper(sub.word), earned)
  ELSE lobby.players

\* GameEngine.submit_word: the players of the lobby after the call.
SubmitWordPlayers(lobby, pid, sub, earned) ==
  IF SubmitReason(lobby, pid, sub) # "ok" THEN lobby.players
  ELSE AcceptWord(lobby.players, pid, Upper(sub.word), earned)

\* "submit_word": the word_result goes to the sender; an accepted word is
\* appended, scored as not unique, a word of 5 letters or more earns a powerup
\* drawn from freeze, blowup and shuffle, and the score_update goes to the
\* connections of the lobby.  ev holds the word_result, the lobby's status at
\* the call, and the connections the score_update went to.
SubmitWord(lid, pid, sub, earned) ==
  /\ frames < MaxFrames
  /\ << lid, pid >> \in conns
  /\ LET o == lobbies[lid]
         lobby == objs[o]
         reason == SubmitReason(lobby, pid, sub)
         word == Upper(sub.word)
         long == Len(word) >= PowerupWordLength
     IN /\ (reason = "ok" /\ long) \/ earned = "freeze"
        /\ objs' = [objs EXCEPT ![o].players =
                                  SubmitWordPlayers(lobby, pid, sub, earned)]
        /\ ev' = IF reason # "ok"
                 THEN [NoEvent EXCEPT
                         !.type = "word_result", !.valid = FALSE,
                         !.status = lobby.status]
                 ELSE [NoEvent EXCEPT
                         !.type = "word_result", !.lid = lid, !.pid = pid,
                         !.sub = sub, !.valid = TRUE,
                         !.status = lobby.status,
                         !.points = CalculateWordScore(word, FALSE),
                         !.powerup = IF long THEN earned ELSE None,
                         !.total_score =
                            AcceptWord(lobby.players, pid, word, earned)
                              [PlayerIndex(lobby.players, pid)].score,
                         !.score_update = Recipients(lid)]
  /\ UNCHANGED << lobbies, board_gen, armed_locks, player_boards, active_freezes,
                  blocked_cells, game_challenges, conns, tasks, pub >>
  /\ frames' = Counted

\* list.remove(x): the list without its first x.
RemoveFirst(seq, x) ==
  LET k == CHOOSE n \in 1..Len(seq) :
             seq[n] = x /\ \A m \in 1..(n - 1) : seq[m] # x
  IN [n \in 1..(Len(seq) - 1) |-> IF n < k THEN seq[n] ELSE seq[n + 1]]

Holds(seq, x) == \E n \in 1..Len(seq) : seq[n] = x

\* PowerUpManager.apply_powerup, the freeze branch: active_freezes after it.
ApplyFreeze(freezes, lid, pid) ==
  Put(freezes, lid, (IF lid \in DOMAIN freezes THEN freezes[lid] ELSE {}) \cup {pid})

\* PowerUpManager.apply_powerup, the blowup branch: blocked_cells after it.
ApplyBlowup(blocked, lid, cells) == Put(blocked, lid, cells)

\* The cells of a use_powerup that draws none.
NoCells == CHOOSE c \in BlowupChoices : TRUE

\* "use_powerup": a powerup the player holds is removed from the inventory and
\* applied.  lock arms a snapshot of the lobby board; shuffle regenerates the
\* engine's board_gen, makes its grid the lobby board and consumes the locks;
\* freeze adds 10 seconds to the player's bonus_time.
UsePowerup(lid, pid, powerup, cells, grid) ==
  /\ frames < MaxFrames
  /\ << lid, pid >> \in conns
  /\ UNCHANGED << lobbies, game_challenges, conns, tasks, pub >>
  /\ LET o == lobbies[lid]
         lobby == objs[o]
         k == PlayerIndex(lobby.players, pid)
         held == k # 0 /\ Holds(lobby.players[k].powerups, powerup)
         rest == RemoveFirst(lobby.players[k].powerups, powerup)
     IN /\ (held /\ powerup = "blowup") \/ cells = NoCells
        /\ ev' = IF held /\ powerup = "shuffle"
                 THEN [NoEvent EXCEPT
                         !.type = "board_update", !.lid = lid, !.pid = pid,
                         !.protected =
                            ConsumeLocksForShuffle(armed_locks, player_boards, lid).protected,
                         !.overridden = DOMAIN Entries(player_boards, lid)]
                 ELSE NoEvent
        /\ IF held /\ powerup = "shuffle"
           THEN board_gen # NoBoardGen /\ grid \in Generate(board_gen.size)
           ELSE grid = BoardA5
        /\ IF ~held
           THEN UNCHANGED << objs, board_gen, armed_locks, player_boards,
                             active_freezes, blocked_cells >>
           ELSE IF powerup = "lock"
           THEN /\ objs' = [objs EXCEPT ![o].players[k].powerups = rest]
                /\ armed_locks' = ArmLock(armed_locks, lid, pid, lobby.board)
                /\ UNCHANGED << board_gen, player_boards, active_freezes,
                                blocked_cells >>
           ELSE IF powerup = "shuffle"
           THEN LET c == ConsumeLocksForShuffle(armed_locks, player_boards, lid)
                IN /\ board_gen' = [board_gen EXCEPT !.grid = grid]
                   /\ objs' = [objs EXCEPT ![o].players[k].powerups = rest,
                                           ![o].board = grid]
                   /\ armed_locks' = c.armed
                   /\ player_boards' = c.boards
                   /\ UNCHANGED << active_freezes, blocked_cells >>
           ELSE IF powerup = "freeze"
           THEN /\ objs' = [objs EXCEPT ![o].players[k].powerups = rest,
                                        ![o].players[k].bonus_time =
                                           @ + FreezeBonusSeconds]
                /\ active_freezes' = ApplyFreeze(active_freezes, lid, pid)
                /\ UNCHANGED << board_gen, armed_locks, player_boards,
                                blocked_cells >>
           ELSE /\ objs' = [objs EXCEPT ![o].players[k].powerups = rest]
                /\ blocked_cells' = ApplyBlowup(blocked_cells, lid, cells)
                /\ UNCHANGED << board_gen, armed_locks, player_boards,
                                active_freezes >>
  /\ frames' = Counted

\* GameEngine.reset_lobby: the object after the call.
ResetLobby(lobby) ==
  [lobby EXCEPT
     !.status = "lobby", !.board = << >>, !.timer = 0,
     !.players = [n \in 1..Len(lobby.players) |->
                    [lobby.players[n] EXCEPT !.score = 0, !.found_words = << >>,
                                             !.powerups = << >>,
                                             !.is_ready = FALSE]]]

AllWantPlayAgain(players) ==
  \A n \in 1..Len(players) : players[n].wants_play_again

\* "want_play_again": in summary the sender's flag is set, and the lobby is
\* reset once every player's flag is set.
WantPlayAgain(lid, pid) ==
  /\ frames < MaxFrames
  /\ << lid, pid >> \in conns
  /\ ev' = NoEvent
  /\ UNCHANGED << lobbies, board_gen, armed_locks, player_boards, active_freezes,
                  blocked_cells, game_challenges, conns, tasks, pub >>
  /\ LET o == lobbies[lid]
         lobby == objs[o]
         k == PlayerIndex(lobby.players, pid)
         marked == [lobby EXCEPT !.players[k].wants_play_again = TRUE,
                                 !.players[k].sent_play_again = TRUE]
     IN objs' = IF lobby.status # "summary" \/ k = 0 THEN objs
                ELSE IF AllWantPlayAgain(marked.players)
                THEN [objs EXCEPT ![o] = ResetLobby(marked)]
                ELSE [objs EXCEPT ![o] = marked]
  /\ frames' = Counted

\* "reset_game": the host's frame resets the lobby, in any status.
ResetGame(lid, pid) ==
  /\ frames < MaxFrames
  /\ << lid, pid >> \in conns
  /\ ev' = NoEvent
  /\ UNCHANGED << lobbies, board_gen, armed_locks, player_boards, active_freezes,
                  blocked_cells, game_challenges, conns, tasks, pub >>
  /\ LET o == lobbies[lid]
     IN objs' = IF objs[o].host_id = pid
                THEN [objs EXCEPT ![o] = ResetLobby(objs[o])]
                ELSE objs
  /\ frames' = Counted

\* A submit_word frame whose data lacks word or path: WordSubmission(**msg_data)
\* raises a validation error, which the endpoint's only handler (except
\* WebSocketDisconnect) does not catch.  The endpoint ends there: the
\* connection is gone, and neither manager.disconnect nor leave_lobby ran.
MalformedFrame(lid, pid) ==
  /\ frames < MaxFrames
  /\ << lid, pid >> \in conns
  /\ conns' = conns \ { << lid, pid >> }
  /\ ev' = NoEvent
  /\ UNCHANGED << objs, lobbies, board_gen, armed_locks, player_boards,
                  active_freezes, blocked_cells, game_challenges, tasks, pub >>
  /\ frames' = Counted

\* A frame whose type no branch of the receive loop names: the loop goes on to
\* the next receive_json.
UnknownFrame(lid, pid) ==
  /\ frames < MaxFrames
  /\ << lid, pid >> \in conns
  /\ ev' = NoEvent
  /\ UNCHANGED << objs, lobbies, board_gen, armed_locks, player_boards,
                  active_freezes, blocked_cells, game_challenges, conns, tasks,
                  pub >>
  /\ frames' = Counted

(***************************************************************************)
(* run_game_loop: one coroutine per create_task.  It keeps the lobby       *)
(* object it looked up when it started, and suspends in asyncio.sleep(1).  *)
(***************************************************************************)
\* finders counted as the players of the lobby, whoever holds the word.
FindersAsPlayers(players, word) == Len(players)

\* GameEngine.finalize_scores: the players with their recomputed scores.
Finders(players, word) ==
  Cardinality({n \in 1..Len(players) : Holds(players[n].found_words, word)})

RECURSIVE SumScores(_, _)
SumScores(words, players) ==
  IF words = << >> THEN 0
  ELSE CalculateWordScore(Head(words), Finders(players, Head(words)) = 1)
       + SumScores(Tail(words), players)

FinalizeScores(players) ==
  [n \in 1..Len(players) |->
     [players[n] EXCEPT !.score = SumScores(players[n].found_words, players)]]

\* The round's length: 120 for a 4 x 4 board, else the configured duration.
RoundSeconds(board_size) ==
  IF board_size = 4 THEN FourByFourDuration ELSE GAME_DURATION_SECONDS

\* run_game_loop, lines 298-309: look the lobby up, enter the countdown.
TaskStart(t) ==
  /\ UNCHANGED frames
  /\ tasks[t].pc = "init"
  /\ ev' = NoEvent
  /\ UNCHANGED << lobbies, board_gen, armed_locks, player_boards, active_freezes,
                  blocked_cells, game_challenges, conns, pub >>
  /\ LET lid == tasks[t].lid
     IN IF lid \notin DOMAIN lobbies
        THEN /\ tasks' = [tasks EXCEPT ![t] = Idle]
             /\ UNCHANGED objs
        ELSE LET o == lobbies[lid]
             IN /\ objs' = [objs EXCEPT ![o].status = "countdown",
                                        ![o].timer = CountdownFrom]
                /\ tasks' = [tasks EXCEPT ![t] = [lid |-> lid, obj |-> o,
                                                  pc |-> "countdown",
                                                  i |-> CountdownFrom]]

\* GameEngine.start_game on the lobby the table holds under the id: the object
\* after the call.  It returns without a board when a player is not ready.
StartGameRuns(tbl, heap, lid) ==
  lid \in DOMAIN tbl /\ AllReady(heap[tbl[lid]].players)

StartGame(lobby, grid) ==
  [lobby EXCEPT !.board = grid, !.status = "countdown", !.timer = CountdownFrom,
                !.challenges = TRUE]

\* run_game_loop, lines 313-320: the task's lobby object enters the round.
EnterPlaying(lobby) ==
  [lobby EXCEPT
     !.status = "playing", !.timer = RoundSeconds(lobby.board_size),
     !.players = [n \in 1..Len(lobby.players) |->
                    [lobby.players[n] EXCEPT !.bonus_time = 0,
                                             !.is_time_up = FALSE]]]

\* run_game_loop, lines 303-330: a second of the countdown ends.  After the
\* last one start_game runs, the lobby is set to playing with its timer, and
\* the task sleeps in the main timer loop.
TaskCountdown(t, grid) ==
  /\ UNCHANGED frames
  /\ tasks[t].pc = "countdown"
  /\ ev' = NoEvent
  /\ UNCHANGED << lobbies, armed_locks, player_boards, active_freezes,
                  blocked_cells, conns >>
  /\ LET lid == tasks[t].lid
         o == tasks[t].obj
         runs == StartGameRuns(lobbies, objs, lid)
         started == IF runs
                    THEN [objs EXCEPT ![lobbies[lid]] = StartGame(@, grid)]
                    ELSE objs
     IN IF tasks[t].i > 1
        THEN /\ grid = BoardA5
             /\ objs' = [objs EXCEPT ![o].timer = tasks[t].i - 1]
             /\ tasks' = [tasks EXCEPT ![t].i = @ - 1]
             /\ UNCHANGED << board_gen, game_challenges, pub >>
        ELSE /\ IF runs THEN grid \in Generate(objs[lobbies[lid]].board_size)
                        ELSE grid = BoardA5
             /\ board_gen' = IF runs
                             THEN BoggleBoard(objs[lobbies[lid]].board_size, grid)
                             ELSE board_gen
             /\ game_challenges' = IF runs THEN game_challenges \cup {lid}
                                   ELSE game_challenges
             /\ objs' = [started EXCEPT ![o] = EnterPlaying(@)]
             /\ pub' = [pub EXCEPT ![lid] = {}]
             /\ tasks' = [tasks EXCEPT ![t].pc = "main", ![t].i = 0]

\* Every player marked, with or without bonus time.
MarkTimeUpAll(players) ==
  [n \in 1..Len(players) |-> [players[n] EXCEPT !.is_time_up = TRUE]]

\* run_game_loop, lines 347-354: players without bonus time are finished.
MarkTimeUp(players) ==
  [n \in 1..Len(players) |->
     IF players[n].bonus_time > 0 THEN players[n]
     ELSE [players[n] EXCEPT !.is_time_up = TRUE]]

\* No player is taken to have bonus time.
NoBonus(players) == FALSE

\* run_game_loop, lines 359-362: the data of the waiting_phase event.
PlayersFinished(players) ==
  {players[n].id : n \in {m \in 1..Len(players) : players[m].is_time_up}}

PlayersWithBonus(players) ==
  {[player_id |-> players[n].id, bonus_time |-> players[n].bonus_time] :
     n \in {m \in 1..Len(players) : players[m].bonus_time > 0}}

AnyBonus(players) == \E n \in 1..Len(players) : players[n].bonus_time > 0

\* A summary phase begins: its history of want_play_again frames is empty.
NoneSent(players) ==
  [n \in 1..Len(players) |-> [players[n] EXCEPT !.sent_play_again = FALSE]]

\* run_game_loop, lines 397-399, with GameEngine.finalize_scores: the task's
\* object becomes summary, and the lobby of the table is finalized.
Summary(heap, tbl, o, lid) ==
  LET h == [heap EXCEPT ![o].status = "summary",
                        ![o].players = IF heap[o].status = "summary" THEN @
                                       ELSE NoneSent(@)]
  IN [h EXCEPT ![tbl[lid]].players = FinalizeScores(@)]

\* run_game_loop, lines 330-364: a second of the main timer ends.
TaskMainTick(t) ==
  /\ UNCHANGED frames
  /\ tasks[t].pc = "main"
  /\ UNCHANGED << lobbies, board_gen, armed_locks, player_boards, active_freezes,
                  blocked_cells, conns >>
  /\ LET lid == tasks[t].lid
         o == tasks[t].obj
         timer == objs[o].timer - 1
         ticked == [objs EXCEPT ![o].timer = timer]
         sent == Recipients(lid) # {}
         marked == [ticked EXCEPT ![o].players = MarkTimeUp(@)]
     IN /\ ev' = IF sent
                 THEN [NoEvent EXCEPT !.type = "timer_update", !.lid = lid,
                                      !.timer = timer, !.prev = pub[lid],
                                      !.status = objs[o].status]
                 ELSE NoEvent
        /\ pub' = IF sent THEN [pub EXCEPT ![lid] = {timer}] ELSE pub
        /\ IF lid \notin DOMAIN lobbies
           THEN /\ tasks' = [tasks EXCEPT ![t] = Idle]
                /\ objs' = Collect(ticked, lobbies, tasks')
                /\ UNCHANGED game_challenges
           ELSE IF timer > 0
           THEN /\ objs' = ticked
                /\ UNCHANGED << tasks, game_challenges >>
           ELSE IF AnyBonus(objs[o].players)
           THEN /\ objs' = marked
                /\ tasks' = [tasks EXCEPT ![t].pc = "bonus"]
                /\ UNCHANGED game_challenges
           ELSE /\ tasks' = [tasks EXCEPT ![t] = Idle]
                /\ objs' = Collect(Summary(marked, lobbies, o, lid), lobbies, tasks')
                /\ game_challenges' = game_challenges \ {lid}

\* A second of bonus time that takes nothing from any player.
BonusTickHeld(players) == players

\* run_game_loop, lines 375-379: each player with bonus time loses a second.
BonusTick(players) ==
  [n \in 1..Len(players) |->
     IF players[n].bonus_time > 0
     THEN [players[n] EXCEPT !.bonus_time = @ - 1,
                             !.is_time_up = IF players[n].bonus_time - 1 <= 0
                                            THEN TRUE ELSE @]
     ELSE players[n]]

\* run_game_loop, lines 367-399: a second of the bonus time phase ends.
TaskBonusTick(t) ==
  /\ UNCHANGED frames
  /\ tasks[t].pc = "bonus"
  /\ ev' = NoEvent
  /\ UNCHANGED << lobbies, board_gen, armed_locks, player_boards, active_freezes,
                  blocked_cells, conns, pub >>
  /\ LET lid == tasks[t].lid
         o == tasks[t].obj
         ticked == [objs EXCEPT ![o].players = BonusTick(@)]
     IN IF lid \notin DOMAIN lobbies
        THEN /\ tasks' = [tasks EXCEPT ![t] = Idle]
             /\ objs' = Collect(objs, lobbies, tasks')
             /\ UNCHANGED game_challenges
        ELSE IF AnyBonus(ticked[o].players)
        THEN /\ objs' = ticked
             /\ UNCHANGED << tasks, game_challenges >>
        ELSE /\ tasks' = [tasks EXCEPT ![t] = Idle]
             /\ objs' = Collect(Summary(ticked, lobbies, o, lid), lobbies, tasks')
             /\ game_challenges' = game_challenges \ {lid}

Next ==
  \/ \E lid \in LobbyIds, pid \in PlayerIds, mode \in Modes : Connect(lid, pid, mode)
  \/ \E lid \in LobbyIds, pid \in PlayerIds : Disconnect(lid, pid)
  \/ \E lid \in LobbyIds, pid \in PlayerIds : ToggleReady(lid, pid)
  \/ \E lid \in LobbyIds, pid \in PlayerIds, size \in Sizes : SetBoardSize(lid, pid, size)
  \/ \E lid \in LobbyIds, pid \in PlayerIds, sub \in Submissions, earned \in EarnedKinds :
        SubmitWord(lid, pid, sub, earned)
  \/ \E lid \in LobbyIds, pid \in PlayerIds, powerup \in PowerupKinds,
        cells \in BlowupChoices, grid \in AllBoards :
        UsePowerup(lid, pid, powerup, cells, grid)
  \/ \E lid \in LobbyIds, pid \in PlayerIds : WantPlayAgain(lid, pid)
  \/ \E lid \in LobbyIds, pid \in PlayerIds : ResetGame(lid, pid)
  \/ \E t \in TaskIds : TaskStart(t)
  \/ \E t \in TaskIds, grid \in AllBoards : TaskCountdown(t, grid)
  \/ \E t \in TaskIds : TaskMainTick(t)
  \/ \E t \in TaskIds : TaskBonusTick(t)

Spec == Init /\ [][Next]_vars

\* The server with clients that also send frames the protocol does not know.
NextFrames ==
  \/ Next
  \/ \E lid \in LobbyIds, pid \in PlayerIds : MalformedFrame(lid, pid)
  \/ \E lid \in LobbyIds, pid \in PlayerIds : UnknownFrame(lid, pid)

SpecFrames == Init /\ [][NextFrames]_vars

\* A round as one player reaches it: p1 created L1, got ready, the countdown
\* ran, and p1 found STONE, which earned a freeze.
RoundStart(grid) ==
  /\ objs = [o \in ObjIds |->
               IF o = 1
               THEN [NewLobby("L1", "p1") EXCEPT
                       !.status = "playing", !.board = grid,
                       !.timer = RoundSeconds(DEFAULT_BOARD_SIZE),
                       !.challenges = TRUE,
                       !.players = << [NewPlayer("p1") EXCEPT
                                         !.is_ready = TRUE,
                                         !.score = CalculateWordScore(<<"S","T","O","N","E">>, FALSE),
                                         !.found_words = << <<"S","T","O","N","E">> >>,
                                         !.powerups = << "freeze" >>] >>]
               ELSE Free]
  /\ lobbies = Put(EmptyDict, "L1", 1)
  /\ board_gen = BoggleBoard(DEFAULT_BOARD_SIZE, grid)
  /\ armed_locks = EmptyDict
  /\ player_boards = EmptyDict
  /\ active_freezes = EmptyDict
  /\ blocked_cells = EmptyDict
  /\ game_challenges = {"L1"}
  /\ conns = { << "L1", "p1" >> }
  /\ tasks = [t \in TaskIds |->
                IF t = 1 THEN [lid |-> "L1", obj |-> 1, pc |-> "main", i |-> 0]
                ELSE Idle]
  /\ pub = [l \in LobbyIds |-> {}]
  /\ ev = NoEvent

InitRound ==
  /\ \E grid \in Generate(DEFAULT_BOARD_SIZE) : RoundStart(grid)
  /\ frames = 0

SpecRound == InitRound /\ [][Next]_vars

\* A round of two players whose inventories hold lock and shuffle: p1 created
\* L1, p2 joined, both got ready, the countdown ran and the first second of the
\* round has passed.
LockStart(grid) ==
  /\ objs = [o \in ObjIds |->
               IF o = 1
               THEN [NewLobby("L1", "p1") EXCEPT
                       !.status = "playing", !.board = grid,
                       !.timer = RoundSeconds(DEFAULT_BOARD_SIZE) - 1,
                       !.challenges = TRUE,
                       !.players = << [NewPlayer("p1") EXCEPT
                                         !.is_ready = TRUE,
                                         !.powerups = << "lock", "shuffle" >>],
                                      [NewPlayer("p2") EXCEPT
                                         !.is_ready = TRUE,
                                         !.powerups = << "lock", "shuffle" >>] >>]
               ELSE Free]
  /\ lobbies = Put(EmptyDict, "L1", 1)
  /\ board_gen = BoggleBoard(DEFAULT_BOARD_SIZE, grid)
  /\ armed_locks = EmptyDict
  /\ player_boards = EmptyDict
  /\ active_freezes = EmptyDict
  /\ blocked_cells = EmptyDict
  /\ game_challenges = {"L1"}
  /\ conns = { << "L1", "p1" >>, << "L1", "p2" >> }
  /\ tasks = [t \in TaskIds |->
                IF t = 1 THEN [lid |-> "L1", obj |-> 1, pc |-> "main", i |-> 0]
                ELSE Idle]
  /\ pub = [l \in LobbyIds |->
              IF l = "L1" THEN {RoundSeconds(DEFAULT_BOARD_SIZE) - 1} ELSE {}]
  /\ ev = NoEvent

\* Of the frames that made the round (two connections, two toggle_ready) one
\* is counted.
InitLock ==
  /\ \E grid \in Generate(DEFAULT_BOARD_SIZE) : LockStart(grid)
  /\ frames = 1

SpecLock == InitLock /\ [][Next]_vars

\* A round of two players: p1 created L1, p2 joined, both got ready and the
\* countdown ran.
PairStart(grid) ==
  /\ objs = [o \in ObjIds |->
               IF o = 1
               THEN [NewLobby("L1", "p1") EXCEPT
                       !.status = "playing", !.board = grid,
                       !.timer = RoundSeconds(DEFAULT_BOARD_SIZE),
                       !.challenges = TRUE,
                       !.players = << [NewPlayer("p1") EXCEPT !.is_ready = TRUE],
                                      [NewPlayer("p2") EXCEPT !.is_ready = TRUE] >>]
               ELSE Free]
  /\ lobbies = Put(EmptyDict, "L1", 1)
  /\ board_gen = BoggleBoard(DEFAULT_BOARD_SIZE, grid)
  /\ armed_locks = EmptyDict
  /\ player_boards = EmptyDict
  /\ active_freezes = EmptyDict
  /\ blocked_cells = EmptyDict
  /\ game_challenges = {"L1"}
  /\ conns = { << "L1", "p1" >>, << "L1", "p2" >> }
  /\ tasks = [t \in TaskIds |->
                IF t = 1 THEN [lid |-> "L1", obj |-> 1, pc |-> "main", i |-> 0]
                ELSE Idle]
  /\ pub = [l \in LobbyIds |-> {}]
  /\ ev = NoEvent

\* Of the frames that made the round (two connections, two toggle_ready) one
\* is counted.
InitPair ==
  /\ \E grid \in Generate(DEFAULT_BOARD_SIZE) : PairStart(grid)
  /\ frames = 1

SpecPair == InitPair /\ [][Next]_vars

(***************************************************************************)
(* The second round of two players: their first round ended in a summary   *)
(* in which both sent want_play_again, reset_lobby took the lobby back to  *)
(* the lobby phase, both sent toggle_ready and the countdown has run.      *)
(***************************************************************************)
\* wants_play_again is set by the want_play_again frame and written nowhere
\* else: reset_lobby and run_game_loop leave it as it is.
AgainStart(grid) ==
  /\ objs = [o \in ObjIds |->
               IF o = 1
               THEN [NewLobby("L1", "p1") EXCEPT
                       !.status = "playing", !.board = grid,
                       !.timer = RoundSeconds(DEFAULT_BOARD_SIZE),
                       !.challenges = TRUE,
                       !.players =
                          << [NewPlayer("p1") EXCEPT !.is_ready = TRUE,
                                                     !.wants_play_again = TRUE,
                                                     !.sent_play_again = TRUE],
                             [NewPlayer("p2") EXCEPT !.is_ready = TRUE,
                                                     !.wants_play_again = TRUE,
                                                     !.sent_play_again = TRUE] >>]
               ELSE Free]
  /\ lobbies = Put(EmptyDict, "L1", 1)
  /\ board_gen = BoggleBoard(DEFAULT_BOARD_SIZE, grid)
  /\ armed_locks = EmptyDict
  /\ player_boards = EmptyDict
  /\ active_freezes = EmptyDict
  /\ blocked_cells = EmptyDict
  /\ game_challenges = {"L1"}
  /\ conns = { << "L1", "p1" >>, << "L1", "p2" >> }
  /\ tasks = [t \in TaskIds |->
                IF t = 1 THEN [lid |-> "L1", obj |-> 1, pc |-> "main", i |-> 0]
                ELSE Idle]
  /\ pub = [l \in LobbyIds |-> {}]
  /\ ev = NoEvent

\* Of the frames that made the two rounds one is counted.
InitAgain ==
  /\ \E grid \in Generate(DEFAULT_BOARD_SIZE) : AgainStart(grid)
  /\ frames = 1

SpecAgain == InitAgain /\ [][Next]_vars

(***************************************************************************)
(* A round on a 5 x 5 board: p1 created L1, set the board size to 5, got   *)
(* ready, the countdown ran, and p1 found STONE, which earned a blowup.    *)
(***************************************************************************)
SmallBoardSize == 5

BlowupStart(grid) ==
  /\ objs = [o \in ObjIds |->
               IF o = 1
               THEN [NewLobby("L1", "p1") EXCEPT
                       !.status = "playing", !.board = grid,
                       !.board_size = SmallBoardSize,
                       !.timer = RoundSeconds(SmallBoardSize),
                       !.challenges = TRUE,
                       !.players = << [NewPlayer("p1") EXCEPT
                                         !.is_ready = TRUE,
                                         !.score = CalculateWordScore(<<"S","T","O","N","E">>, FALSE),
                                         !.found_words = << <<"S","T","O","N","E">> >>,
                                         !.powerups = << "blowup" >>] >>]
               ELSE Free]
  /\ lobbies = Put(EmptyDict, "L1", 1)
  /\ board_gen = BoggleBoard(SmallBoardSize, grid)
  /\ armed_locks = EmptyDict
  /\ player_boards = EmptyDict
  /\ active_freezes = EmptyDict
  /\ blocked_cells = EmptyDict
  /\ game_challenges = {"L1"}
  /\ conns = { << "L1", "p1" >> }
  /\ tasks = [t \in TaskIds |->
                IF t = 1 THEN [lid |-> "L1", obj |-> 1, pc |-> "main", i |-> 0]
                ELSE Idle]
  /\ pub = [l \in LobbyIds |-> {}]
  /\ ev = NoEvent

\* Of the frames that made the round (the connection, set_board_size,
\* toggle_ready, submit_word) one is counted.
InitBlowup ==
  /\ \E grid \in Generate(SmallBoardSize) : BlowupStart(grid)
  /\ frames = 1

SpecBlowup == InitBlowup /\ [][Next]_vars

(***************************************************************************)
(* The round of one player under fair scheduling: the event loop resumes  *)
(* every run_game_loop task when its sleep is over, so a task step that   *)
(* stays possible is taken.  Frames arrive whenever the clients send them. *)
(***************************************************************************)

\* Of the frames that made the round (the connection, toggle_ready,
\* submit_word) two are counted.
InitLive ==
  /\ \E grid \in Generate(DEFAULT_BOARD_SIZE) : RoundStart(grid)
  /\ frames = 2

TaskFairness ==
  \A t \in TaskIds :
     /\ WF_vars(TaskStart(t))
     /\ WF_vars(\E grid \in AllBoards : TaskCountdown(t, grid))
     /\ WF_vars(TaskMainTick(t))
     /\ WF_vars(TaskBonusTick(t))

SpecLive == InitLive /\ [][Next]_vars /\ TaskFairness

(***************************************************************************)
(* GameEngine.join_lobby and GameEngine.leave_lobby called on a lobby of   *)
(* up to 10 players.  ev holds the call and what it returned.              *)
(***************************************************************************)
\* The ids of the players, in the order in which they joined L1.
Joiners == << "p1", "p2", "p3", "p4", "p5", "p6", "p7", "p8", "p9", "p10" >>

\* The ids of the calls: the first two and the last of the joiners, and an id
\* that has not joined.
CallerIds == {"p1", "p2", "p10", "p11"}

\* L1 after p1 created it and the next k - 1 joiners joined in order.
TableStart(k) ==
  /\ objs = [o \in ObjIds |->
               IF o = 1
               THEN [NewLobby("L1", Joiners[1]) EXCEPT
                       !.players = [n \in 1..k |-> NewPlayer(Joiners[n])]]
               ELSE Free]
  /\ lobbies = Put(EmptyDict, "L1", 1)
  /\ board_gen = NoBoardGen
  /\ armed_locks = EmptyDict
  /\ player_boards = EmptyDict
  /\ active_freezes = EmptyDict
  /\ blocked_cells = EmptyDict
  /\ game_challenges = {}
  /\ conns = {}
  /\ tasks = [t \in TaskIds |-> Idle]
  /\ frames = 0
  /\ pub = [l \in LobbyIds |-> {}]
  /\ ev = NoEvent

InitTable == \E k \in 1..MaxPlayers : TableStart(k)

\* game_engine.join_lobby(lid, pid, ...): ev.valid is the value returned, on
\* which websocket_endpoint goes on or closes the connection.
CallJoinLobby(lid, pid) ==
  /\ UNCHANGED << lobbies, board_gen, armed_locks, player_boards, active_freezes,
                  blocked_cells, game_challenges, conns, tasks, frames, pub >>
  /\ IF lid \notin DOMAIN lobbies
     THEN /\ ev' = [NoEvent EXCEPT !.type = "join_lobby", !.lid = lid,
                                   !.pid = pid, !.valid = FALSE]
          /\ UNCHANGED objs
     ELSE LET lobby == objs[lobbies[lid]] IN
          /\ ev' = [NoEvent EXCEPT !.type = "join_lobby", !.lid = lid,
                                   !.pid = pid, !.valid = JoinLobbyOk(lobby)]
          /\ objs' = [objs EXCEPT ![lobbies[lid]].players =
                                     JoinLobbyPlayers(lobby, pid)]

\* game_engine.leave_lobby(lid, pid): ev.valid is the value returned.
CallLeaveLobby(lid, pid) ==
  /\ UNCHANGED << board_gen, armed_locks, player_boards, active_freezes,
                  blocked_cells, game_challenges, conns, tasks, frames, pub >>
  /\ ev' = [NoEvent EXCEPT !.type = "leave_lobby", !.lid = lid, !.pid = pid,
                           !.valid = (lid \in DOMAIN lobbies)]
  /\ IF lid \notin DOMAIN lobbies
     THEN UNCHANGED << objs, lobbies >>
     ELSE LET o == lobbies[lid]
              after == LeaveLobby(objs[o], pid)
              tbl == IF after.players = << >> THEN Del(lobbies, lid) ELSE lobbies
          IN /\ lobbies' = tbl
             /\ objs' = Collect([objs EXCEPT ![o] = after], tbl, tasks)

NextTable ==
  \/ \E lid \in LobbyIds, pid \in CallerIds : CallJoinLobby(lid, pid)
  \/ \E lid \in LobbyIds, pid \in CallerIds : CallLeaveLobby(lid, pid)

SpecTable == InitTable /\ [][NextTable]_vars

(***************************************************************************)
(* The connection broker with the sockets told apart.  Here conns is the   *)
(* content of manager.active_connections: an entry << lid, pid, ws, at >>  *)
(* is the socket ws registered under lobby id lid, pid is the player id of  *)
(* its URL, and at tells where its handler is: "open" in the receive loop,  *)
(* "closed" after it closed the socket and returned.  Several sockets may   *)
(* carry one player id.  No timer task runs.                                *)
(***************************************************************************)
WebSockets == {1, 2, 3}

\* The sockets the ten players of a full lobby are connected with.
SeatedSockets == [n \in 1..MaxPlayers |-> Cardinality(WebSockets) + n]

\* WebSocketManager.connect: the registry after the call.
ManagerConnect(registry, lid, pid, ws, at) ==
  registry \cup { << lid, pid, ws, at >> }

\* WebSocketManager.disconnect: the registry after the call.
ManagerDisconnect(registry, ws) == {c \in registry : c[3] # ws}

\* The lobby ids that are keys of active_connections.
RegisteredLobbyIds == {c[1] : c \in conns}

\* The next socket the server accepts.
NewSocket ==
  CHOOSE ws \in WebSockets :
    /\ \A c \in conns : c[3] # ws
    /\ \A other \in WebSockets : (\A c \in conns : c[3] # other) => ws <= other

\* The lobby table is empty, or L1 is full: its ten players are connected.
BrokerStart(k) ==
  /\ objs = [o \in ObjIds |->
               IF o = 1 /\ k > 0
               THEN [NewLobby("L1", Joiners[1]) EXCEPT
                       !.players = [n \in 1..k |-> NewPlayer(Joiners[n])]]
               ELSE Free]
  /\ lobbies = IF k > 0 THEN Put(EmptyDict, "L1", 1) ELSE EmptyDict
  /\ board_gen = NoBoardGen
  /\ armed_locks = EmptyDict
  /\ player_boards = EmptyDict
  /\ active_freezes = EmptyDict
  /\ blocked_cells = EmptyDict
  /\ game_challenges = {}
  /\ conns = { << "L1", Joiners[n], SeatedSockets[n], "open" >> : n \in 1..k }
  /\ tasks = [t \in TaskIds |-> Idle]
  /\ frames = 0
  /\ pub = [l \in LobbyIds |-> {}]
  /\ ev = NoEvent

InitBroker == \E k \in {0, MaxPlayers} : BrokerStart(k)

\* websocket_endpoint up to its receive loop, for a new socket: the socket is
\* registered first, then the lobby is created or joined, or the socket is
\* closed and the handler returns.
WebsocketEndpoint(lid, pid, mode) ==
  /\ frames < MaxFrames
  /\ \E ws \in WebSockets : \A c \in conns : c[3] # ws
  /\ ev' = NoEvent
  /\ UNCHANGED << board_gen, armed_locks, player_boards, active_freezes,
                  blocked_cells, game_challenges, tasks, pub >>
  /\ IF lid \notin DOMAIN lobbies
     THEN IF mode = "join"
          THEN \* close(1008, "Lobby not found")
               /\ conns' = ManagerConnect(conns, lid, pid, NewSocket, "closed")
               /\ UNCHANGED << objs, lobbies >>
          ELSE /\ objs' = [objs EXCEPT ![FreeObj] = NewLobby(lid, pid)]
               /\ lobbies' = Put(lobbies, lid, FreeObj)
               /\ conns' = ManagerConnect(conns, lid, pid, NewSocket, "open")
     ELSE LET lobby == objs[lobbies[lid]] IN
          IF JoinLobbyOk(lobby)
          THEN /\ objs' = [objs EXCEPT ![lobbies[lid]].players =
                                          JoinLobbyPlayers(lobby, pid)]
               /\ conns' = ManagerConnect(conns, lid, pid, NewSocket, "open")
               /\ UNCHANGED lobbies
          ELSE \* close(1008, "Lobby full or error joining")
               /\ conns' = ManagerConnect(conns, lid, pid, NewSocket, "closed")
               /\ UNCHANGED << objs, lobbies >>
  /\ frames' = Counted

\* The WebSocketDisconnect handler of the socket ws, raised in its receive
\* loop: the socket leaves the registry and its player id leaves the lobby.
WebSocketDisconnect(ws) ==
  /\ frames < MaxFrames
  /\ \E c \in conns :
       /\ c[3] = ws
       /\ c[4] = "open"
       /\ conns' = ManagerDisconnect(conns, ws)
       /\ IF c[1] \notin DOMAIN lobbies
          THEN UNCHANGED << objs, lobbies >>
          ELSE LET o == lobbies[c[1]]
                   after == LeaveLobby(objs[o], c[2])
                   tbl == IF after.players = << >> THEN Del(lobbies, c[1])
                          ELSE lobbies
               IN /\ lobbies' = tbl
                  /\ objs' = Collect([objs EXCEPT ![o] = after], tbl, tasks)
  /\ ev' = NoEvent
  /\ UNCHANGED << board_gen, armed_locks, player_boards, active_freezes,
                  blocked_cells, game_challenges, tasks, pub >>
  /\ frames' = Counted

NextBroker ==
  \/ \E lid \in LobbyIds, pid \in PlayerIds, mode \in Modes :
        WebsocketEndpoint(lid, pid, mode)
  \/ \E ws \in WebSockets \cup {SeatedSockets[n] : n \in 1..MaxPlayers} :
        WebSocketDisconnect(ws)

SpecBroker == InitBroker /\ [][NextBroker]_vars

(***************************************************************************)
(* BoggleBoard.is_word_on_board and calculate_word_score called on their   *)
(* own.  The board of the call is board_gen; ev holds the call and what it *)
(* returned.                                                               *)
(***************************************************************************)
\* A grid with a two-character tile "QU" at (0, 0), next to a row that holds
\* Q and U as tiles of their own.  No die of DICE_4X4, DICE_5X5 or DICE_6X6
\* carries such a face; grid is a List[List[str]], so the function accepts it.
BoardQU ==
  << <<"QU","I","Z","T">>, <<"U","Q","A","E">>, <<"I","Z","E","S">>,
     <<"T","O","N","E">> >>

WordGrids == {BoardQU, BoardA6}
WordCells == (0..2) \X (0..2)
WordPaths == UNION { [1..n -> WordCells] : n \in MinWordLength..MaxPathLen }
CalledWords == { <<"Q","U","I","Z">>, <<"T","E","A">> }

\* The letters of the words calculate_word_score is called with: one of each
\* score of LETTER_SCORES, the one of score 1 in lower case.  Words of up to 4
\* letters are drawn from all of them, longer words from the two in LongLetters.
ScoreLetters == {"a", "D", "H", "J", "Z"}
LongLetters == {"a", "Z"}
ScoreWords ==
  UNION { [1..n -> ScoreLetters] : n \in 0..4 }
    \cup UNION { [1..n -> LongLetters] : n \in 5..MaxWordLen }

\* The calls: ev holds the arguments of a call that has not run yet.
WordCalls ==
  { [NoEvent EXCEPT !.type = "call is_word_on_board", !.sub = Sub(word, path)] :
      word \in CalledWords, path \in WordPaths }

ScoreCalls ==
  { [NoEvent EXCEPT !.type = "call calculate_word_score",
                    !.sub = Sub(word, << >>), !.valid = is_unique] :
      word \in ScoreWords, is_unique \in BOOLEAN }

InitWords ==
  /\ objs = [o \in ObjIds |-> Free]
  /\ lobbies = EmptyDict
  /\ board_gen \in {BoggleBoard(Len(g), g) : g \in WordGrids}
  /\ armed_locks = EmptyDict
  /\ player_boards = EmptyDict
  /\ active_freezes = EmptyDict
  /\ blocked_cells = EmptyDict
  /\ game_challenges = {}
  /\ conns = {}
  /\ tasks = [t \in TaskIds |-> Idle]
  /\ frames = 0
  /\ pub = [l \in LobbyIds |-> {}]
  /\ ev \in WordCalls \cup ScoreCalls

\* board_gen.is_word_on_board(word, path): ev.valid is the value returned.
CallIsWordOnBoard ==
  /\ ev.type = "call is_word_on_board"
  /\ ev' = [ev EXCEPT !.type = "is_word_on_board",
                      !.valid = IsWordOnBoard(board_gen, ev.sub.word, ev.sub.path)]
  /\ UNCHANGED << core, frames, pub >>

\* calculate_word_score(word, is_unique): ev.valid is the argument is_unique,
\* ev.points the value returned.
CallCalculateWordScore ==
  /\ ev.type = "call calculate_word_score"
  /\ ev' = [ev EXCEPT !.type = "calculate_word_score",
                      !.points = CalculateWordScore(ev.sub.word, ev.valid)]
  /\ UNCHANGED << core, frames, pub >>

NextWords == CallIsWordOnBoard \/ CallCalculateWordScore

SpecWords == InitWords /\ [][NextWords]_vars

(***************************************************************************)
(* BoggleBoard.generate() on a 4 x 4 board.  board_gen is the object whose *)
(* grid is generated; ev holds the place of the call: the rolls (pc        *)
(* "roll"), _fix_landlocked_consonants, _fix_q_without_u, or returned,     *)
(* and the attempts of the loop it is in.                                  *)
(***************************************************************************)
VOWELS == {"A", "E", "I", "O", "U"}
RARE_LETTERS == {"J", "X", "Q", "Z"}

\* The attempts of generate (rolls), of _fix_landlocked_consonants and of
\* _fix_q_without_u.
MaxAttempts == 30
MaxFixAttempts == 50
MaxQAttempts == 20

\* The size of the boards generated here.
RolledSize == 4

\* Grids that the 16 dice of DICE_4X4 roll: one that generate accepts, two
\* with a Q that no U touches (with and without a U on the board), one with a
\* landlocked Q and no U, and one with a landlocked Z and no Q.
RollAccepted ==
  << <<"E","N","C","E">>, <<"N","T","T","Y">>, <<"J","A","X","D">>, <<"A","E","S","O">> >>
RollQFarFromU ==
  << <<"E","S","B","D">>, <<"D","F","E","Q">>, <<"U","T","G","S">>, <<"N","E","V","E">> >>
RollQNoU ==
  << <<"F","O","C","T">>, <<"V","S","G","O">>, <<"S","Q","R","H">>, <<"L","E","O","R">> >>
RollQLandlocked ==
  << <<"P","L","N","Q">>, <<"K","I","L","D">>, <<"Z","W","I","A">>, <<"T","N","I","O">> >>
RollLandlocked ==
  << <<"K","N","D","E">>, <<"E","V","T","C">>, <<"S","D","B","N">>, <<"Z","R","A","S">> >>

RollGrids ==
  {RollAccepted, RollQFarFromU, RollQNoU, RollQLandlocked, RollLandlocked}

GridCells(size) == (0..(size - 1)) \X (0..(size - 1))

Letter(grid, cell) == grid[cell[1] + 1][cell[2] + 1]

\* grid[a], grid[b] = grid[b], grid[a]
SwapCells(grid, a, b) ==
  [r \in 1..Len(grid) |->
     [c \in 1..Len(grid[r]) |->
        IF << r - 1, c - 1 >> = a THEN Letter(grid, b)
        ELSE IF << r - 1, c - 1 >> = b THEN Letter(grid, a)
        ELSE grid[r][c]]]

\* grid[a] = ch
SetCell(grid, a, ch) ==
  [r \in 1..Len(grid) |->
     [c \in 1..Len(grid[r]) |->
        IF << r - 1, c - 1 >> = a THEN ch ELSE grid[r][c]]]

\* The order of "for r in range(size): for c in range(size)" and of the
\* dr, dc loops.
RowMajorBefore(a, b) == a[1] < b[1] \/ (a[1] = b[1] /\ a[2] < b[2])

RowMajorFirst(cells) ==
  CHOOSE a \in cells : \A b \in cells \ {a} : RowMajorBefore(a, b)

\* abs(r - land_r) + abs(c - land_c)
Manhattan(a, b) == Abs(a[1] - b[1]) + Abs(a[2] - b[2])

\* BoggleBoard._get_adjacent_cells
GetAdjacentCells(size, cell) ==
  {a \in GridCells(size) :
     a # cell /\ Abs(a[1] - cell[1]) <= 1 /\ Abs(a[2] - cell[2]) <= 1}

\* BoggleBoard._has_adjacent_vowel
HasAdjacentVowel(grid, size, cell) ==
  \E a \in GetAdjacentCells(size, cell) : Letter(grid, a) \in VOWELS

\* BoggleBoard._has_adjacent_u
HasAdjacentU(grid, size, cell) ==
  \E a \in GetAdjacentCells(size, cell) : Letter(grid, a) = "U"

\* BoggleBoard._find_qs_without_u
FindQsWithoutU(grid, size) ==
  {q \in GridCells(size) : Letter(grid, q) = "Q" /\ ~HasAdjacentU(grid, size, q)}

\* BoggleBoard._get_all_landlocked_consonants
GetAllLandlockedConsonants(grid, size) ==
  {c \in GridCells(size) :
     Letter(grid, c) \notin VOWELS /\ ~HasAdjacentVowel(grid, size, c)}

VowelCells(grid, size) == {c \in GridCells(size) : Letter(grid, c) \in VOWELS}

\* BoggleBoard._is_board_quality_acceptable
IsBoardQualityAcceptable(grid, size) ==
  /\ GetAllLandlockedConsonants(grid, size) = {}
  /\ Cardinality(VowelCells(grid, size)) >=
        (IF size = 4 THEN 4 ELSE IF size = 5 THEN 6 ELSE 9)

\* One attempt of _fix_landlocked_consonants on a grid with a landlocked
\* consonant: the grids it can leave.  The consonant is the first of the list
\* sorted rare letters first, in random order otherwise; the vowel is the
\* first of the vowels sorted by distance, in random order among the nearest.
\* No vowel touches a landlocked consonant, so the first vowel is not adjacent
\* and is swapped with the consonant.
FixLandlockedAttempt(grid, size) ==
  LET landlocked == GetAllLandlockedConsonants(grid, size)
      rare == {c \in landlocked : Letter(grid, c) \in RARE_LETTERS}
      firsts == IF rare # {} THEN rare ELSE landlocked
      vowels == VowelCells(grid, size)
      Nearest(land) ==
        {v \in vowels : \A w \in vowels : Manhattan(v, land) <= Manhattan(w, land)}
  IN IF vowels = {} THEN {grid}
     ELSE UNION { {SwapCells(grid, land, vow) : vow \in Nearest(land)} :
                  land \in firsts }

\* _fix_q_without_u, the U cells not adjacent to the Q.
SpareUs(grid, size, q) ==
  {u \in GridCells(size) :
     Letter(grid, u) = "U" /\ (Abs(u[1] - q[1]) > 1 \/ Abs(u[2] - q[2]) > 1)}

\* The first of the U cells sorted by distance to the Q (the sort is stable:
\* the nearest in row-major order).
NearestU(grid, size, q) ==
  CHOOSE u \in SpareUs(grid, size, q) :
     \A w \in SpareUs(grid, size, q) \ {u} :
        \/ Manhattan(u, q) < Manhattan(w, q)
        \/ (Manhattan(u, q) = Manhattan(w, q) /\ RowMajorBefore(u, w))

\* _fix_q_without_u with a U elsewhere: the nearest U is swapped with the
\* first cell adjacent to the Q that is not a Q.
SwapUIn(grid, size, q) ==
  LET targets == {a \in GetAdjacentCells(size, q) : Letter(grid, a) # "Q"}
  IN IF targets = {} THEN grid
     ELSE SwapCells(grid, NearestU(grid, size, q), RowMajorFirst(targets))

\* _fix_q_without_u with no U to swap: the first adjacent vowel becomes a U;
\* without one, a random adjacent cell is swapped with the first vowel of the
\* board and becomes a U.
MakeU(grid, size, q) ==
  LET adjacent == GetAdjacentCells(size, q)
      near == {a \in adjacent : Letter(grid, a) \in VOWELS}
      vowels == VowelCells(grid, size)
  IN IF near # {} THEN {SetCell(grid, RowMajorFirst(near), "U")}
     ELSE IF vowels = {} THEN {grid}
     ELSE {SetCell(SwapCells(grid, adj, RowMajorFirst(vowels)), adj, "U") :
             adj \in adjacent}

\* One attempt of _fix_q_without_u over the Q cells found at its start: a Q
\* with no U to swap is handled and the loop continues with the next Q; a
\* swap ends the attempt.
RECURSIVE FixQPass(_, _, _)
FixQPass(grid, size, todo) ==
  IF todo = {} THEN {grid}
  ELSE LET q == RowMajorFirst(todo)
       IN IF SpareUs(grid, size, q) = {}
          THEN UNION {FixQPass(g, size, todo \ {q}) : g \in MakeU(grid, size, q)}
          ELSE {SwapUIn(grid, size, q)}

FixQAttempt(grid, size) == FixQPass(grid, size, FindQsWithoutU(grid, size))

Generating(pc, attempt) == [type |-> "generate", pc |-> pc, attempt |-> attempt]

\* BoggleBoard(4) up to the call of generate().
InitBoard ==
  /\ objs = [o \in ObjIds |-> Free]
  /\ lobbies = EmptyDict
  /\ board_gen = BoggleBoard(RolledSize, << >>)
  /\ armed_locks = EmptyDict
  /\ player_boards = EmptyDict
  /\ active_freezes = EmptyDict
  /\ blocked_cells = EmptyDict
  /\ game_challenges = {}
  /\ conns = {}
  /\ tasks = [t \in TaskIds |-> Idle]
  /\ frames = 0
  /\ pub = [l \in LobbyIds |-> {}]
  /\ ev = Generating("roll", 0)

\* generate, one pass of its loop: the dice are rolled; an acceptable grid
\* whose Q cells touch a U is returned; after the last attempt the repairs
\* start.
Roll(grid) ==
  /\ ev.type = "generate"
  /\ ev.pc = "roll"
  /\ ev.attempt < MaxAttempts
  /\ board_gen' = [board_gen EXCEPT !.grid = grid]
  /\ ev' = IF /\ IsBoardQualityAcceptable(grid, board_gen.size)
              /\ FindQsWithoutU(grid, board_gen.size) = {}
           THEN Generating("returned", ev.attempt)
           ELSE IF ev.attempt + 1 < MaxAttempts
           THEN Generating("roll", ev.attempt + 1)
           ELSE Generating("fix_landlocked", 0)
  /\ UNCHANGED << objs, lobbies, armed_locks, player_boards, active_freezes,
                  blocked_cells, game_challenges, conns, tasks, frames, pub >>

\* _fix_landlocked_consonants, one pass of its loop.
FixLandlockedConsonants ==
  /\ ev.type = "generate"
  /\ ev.pc = "fix_landlocked"
  /\ IF \/ ev.attempt = MaxFixAttempts
        \/ GetAllLandlockedConsonants(board_gen.grid, board_gen.size) = {}
     THEN /\ ev' = Generating("fix_q", 0)
          /\ UNCHANGED board_gen
     ELSE /\ \E g \in FixLandlockedAttempt(board_gen.grid, board_gen.size) :
               board_gen' = [board_gen EXCEPT !.grid = g]
          /\ ev' = Generating("fix_landlocked", ev.attempt + 1)
  /\ UNCHANGED << objs, lobbies, armed_locks, player_boards, active_freezes,
                  blocked_cells, game_challenges, conns, tasks, frames, pub >>

\* _fix_q_without_u, one pass of its loop; generate returns after it.
FixQWithoutU ==
  /\ ev.type = "generate"
  /\ ev.pc = "fix_q"
  /\ IF \/ ev.attempt = MaxQAttempts
        \/ FindQsWithoutU(board_gen.grid, board_gen.size) = {}
     THEN /\ ev' = Generating("returned", 0)
          /\ UNCHANGED board_gen
     ELSE /\ \E g \in FixQAttempt(board_gen.grid, board_gen.size) :
               board_gen' = [board_gen EXCEPT !.grid = g]
          /\ ev' = Generating("fix_q", ev.attempt + 1)
  /\ UNCHANGED << objs, lobbies, armed_locks, player_boards, active_freezes,
                  blocked_cells, game_challenges, conns, tasks, frames, pub >>

NextBoard ==
  \/ \E grid \in RollGrids : Roll(grid)
  \/ FixLandlockedConsonants
  \/ FixQWithoutU

SpecBoard == InitBoard /\ [][NextBoard]_vars

(***************************************************************************)
(* Properties.                                                             *)
(***************************************************************************)
Lobbies == {objs[o] : o \in {q \in ObjIds : objs[q] # Free}}

\* The board a player sees: the override installed for the player, else the
\* board of the player's lobby.
EffectiveBoard(lid, pid) ==
  GetPlayerBoard(player_boards, lid, pid, TheLobby(lid).board)

AsBoggleBoard(grid) == BoggleBoard(Len(grid), grid)

\* C1: a submit_word of a player of a playing lobby is path- and letter-checked
\* on the player's effective board (the player's override, else the lobby's
\* board): it is refused as not on the board exactly when the word is not on
\* that board.
C1_CheckedOnEffectiveBoard ==
  \A c \in conns :
    LET lobby == TheLobby(c[1])
    IN (lobby.status = "playing" /\ HasPlayer(lobby.players, c[2])) =>
         \A sub \in Submissions :
           LET reason == SubmitReason(lobby, c[2], sub)
           IN reason # "Word already found" =>
                ((reason = "Word not on board") <=>
                   ~IsWordOnBoard(AsBoggleBoard(EffectiveBoard(c[1], c[2])),
                                  Upper(sub.word), sub.path))

IsGrid(board, size) ==
  /\ Len(board) = size
  /\ \A r \in 1..Len(board) :
       /\ Len(board[r]) = size
       /\ \A c \in 1..Len(board[r]) : board[r][c] # ""

\* C5: the board of a lobby that is playing, waiting or in summary is a
\* board_size x board_size grid of non-empty tiles.
C5_BoardIsGridOfBoardSize ==
  \A lid \in DOMAIN lobbies :
    TheLobby(lid).status \in {"playing", "waiting", "summary"} =>
      IsGrid(TheLobby(lid).board, TheLobby(lid).board_size)

\* C6: each timer_update of a round that was not reset carries the value one
\* less than the timer_update before it, down to 0, and none follows the 0.
C6_TimerUpdatesStepDownToZero ==
  (ev.type = "timer_update" /\ ev.status # "lobby") =>
    /\ ev.timer >= 0
    /\ \A v \in ev.prev : v # 0 /\ ev.timer = v - 1

\* C9: no player's found_words holds a word twice, and every word in it is
\* uppercased.
C9_NoDuplicateFoundWords ==
  \A lobby \in Lobbies : \A n \in 1..Len(lobby.players) :
    LET found == lobby.players[n].found_words
    IN /\ \A a, b \in 1..Len(found) : a # b => found[a] # found[b]
       /\ \A a \in 1..Len(found) : found[a] = Upper(found[a])

\* A player holds TEA and the same word in lower case is refused as found.
C9_Witness ==
  \E c \in conns :
    LET lobby == TheLobby(c[1])
        k == PlayerIndex(lobby.players, c[2])
    IN /\ lobby.status = "playing"
       /\ k # 0
       /\ Holds(lobby.players[k].found_words, <<"T","E","A">>)
       /\ SubmitReason(lobby, c[2], Sub(<<"t","e","a">>, PathTea)) = "Word already found"

\* C10: an accepted submission's path lies within the board it was checked on,
\* uses no cell twice, steps to a neighbouring cell each time, and its tiles
\* spell the uppercased word, which is a dictionary word of 3 letters or more.
C10_AcceptedSubmissionIsSound ==
  (ev.type = "word_result" /\ ev.valid) =>
    LET w == Upper(ev.sub.word)
        path == ev.sub.path
        grid == board_gen.grid
    IN /\ \A n \in 1..Len(path) :
            /\ path[n][1] \in 0..(Len(grid) - 1)
            /\ path[n][2] \in 0..(Len(grid[path[n][1] + 1]) - 1)
       /\ \A a, b \in 1..Len(path) : a # b => path[a] # path[b]
       /\ \A n \in 2..Len(path) :
            /\ path[n][1] - path[n - 1][1] \in {-1, 0, 1}
            /\ path[n][2] - path[n - 1][2] \in {-1, 0, 1}
       /\ [n \in 1..Len(path) |-> grid[path[n][1] + 1][path[n][2] + 1]] = w
       /\ w \in WordSet
       /\ Len(w) >= 3

\* A word was accepted on a board of the engine.
C10_Witness ==
  ev.type = "word_result" /\ ev.valid /\ board_gen.grid \in AllBoards

\* A step of a frame handled for lobby lid or of a timer task started for it.
OperationOn(lid) ==
  \/ \E pid \in PlayerIds, mode \in Modes : Connect(lid, pid, mode)
  \/ \E pid \in PlayerIds : Disconnect(lid, pid)
  \/ \E pid \in PlayerIds : ToggleReady(lid, pid)
  \/ \E pid \in PlayerIds, size \in Sizes : SetBoardSize(lid, pid, size)
  \/ \E pid \in PlayerIds, sub \in Submissions, earned \in EarnedKinds :
        SubmitWord(lid, pid, sub, earned)
  \/ \E pid \in PlayerIds, powerup \in PowerupKinds,
        cells \in BlowupChoices, grid \in AllBoards :
        UsePowerup(lid, pid, powerup, cells, grid)
  \/ \E pid \in PlayerIds : WantPlayAgain(lid, pid)
  \/ \E pid \in PlayerIds : ResetGame(lid, pid)
  \/ \E t \in TaskIds :
        /\ tasks[t].lid = lid
        /\ \/ TaskStart(t)
           \/ \E grid \in AllBoards : TaskCountdown(t, grid)
           \/ TaskMainTick(t)
           \/ TaskBonusTick(t)

\* C4: an operation on one lobby leaves every other lobby's board as it was,
\* and leaves the verdict on every submission to the other lobby as it was.
C4_LobbiesIndependent ==
  [][\A a, b \in LobbyIds :
       (a # b /\ b \in DOMAIN lobbies /\ OperationOn(a)) =>
         /\ b \in DOMAIN lobbies'
         /\ TheLobby(b)' = TheLobby(b)
         /\ \A pid \in PlayerIds, sub \in Submissions :
              SubmitReason(TheLobby(b), pid, sub)' = SubmitReason(TheLobby(b), pid, sub)]_vars

\* The round of InitRound is a state of the server started empty.
RoundStartReached == \E grid \in Generate(DEFAULT_BOARD_SIZE) : RoundStart(grid)

HasArmedLock(lid, pid) == pid \in DOMAIN Entries(armed_locks, lid)

\* The shuffle frames of a player of lobby lid who holds a shuffle: they send
\* the board_update.
ShuffleIn(lid) ==
  /\ ev'.type = "board_update"
  /\ ev'.lid = lid
  /\ lid \in DOMAIN lobbies
  /\ \E pid \in PlayerIds :
       /\ HasPlayer(TheLobby(lid).players, pid)
       /\ Holds(TheLobby(lid).players[PlayerIndex(TheLobby(lid).players, pid)].powerups,
                "shuffle")
       /\ \E grid \in AllBoards : UsePowerup(lid, pid, "shuffle", NoCells, grid)

\* The lock frame of player pid of lobby lid, who holds a lock: it leaves the
\* player with an armed lock.
LockBy(lid, pid) ==
  /\ HasArmedLock(lid, pid)'
  /\ lid \in DOMAIN lobbies
  /\ HasPlayer(TheLobby(lid).players, pid)
  /\ Holds(TheLobby(lid).players[PlayerIndex(TheLobby(lid).players, pid)].powerups,
           "lock")
  /\ UsePowerup(lid, pid, "lock", NoCells, BoardA5)

\* C2: a lock frame arms the lobby board of that moment; the armed snapshot
\* stays as it is until a shuffle in the lobby or a new lock of the player; and
\* right after a shuffle in the lobby the effective board of every player with
\* an armed lock is the armed snapshot.
C2_LockedPlayerKeepsSnapshot ==
  [][\A lid \in LobbyIds, pid \in PlayerIds :
       /\ LockBy(lid, pid) =>
            HasArmedLock(lid, pid)' /\ armed_locks'[lid][pid] = TheLobby(lid).board
       /\ (HasArmedLock(lid, pid) /\ ~ShuffleIn(lid) /\ ~LockBy(lid, pid)) =>
            HasArmedLock(lid, pid)' /\ armed_locks'[lid][pid] = armed_locks[lid][pid]
       /\ (HasArmedLock(lid, pid) /\ ShuffleIn(lid)) =>
            EffectiveBoard(lid, pid)' = armed_locks[lid][pid]]_vars

\* A shuffle protected a player whose snapshot is not the new lobby board.
C2_Witness ==
  /\ ev.type = "board_update"
  /\ \E pid \in DOMAIN ev.protected :
       /\ EffectiveBoard(ev.lid, pid) = ev.protected[pid]
       /\ EffectiveBoard(ev.lid, pid) # TheLobby(ev.lid).board

\* C3: right after a shuffle in a lobby, the effective board of every player of
\* the lobby who had no armed lock is the new lobby board.
C3_UnlockedPlayersSeeNewBoard ==
  [][\A lid \in LobbyIds :
       ShuffleIn(lid) =>
         \A n \in 1..Len(TheLobby(lid).players) :
           LET pid == TheLobby(lid).players[n].id
           IN ~HasArmedLock(lid, pid) =>
                EffectiveBoard(lid, pid)' = TheLobby(lid).board']_vars

\* A shuffle put a player who had an override, and no armed lock, back on the
\* lobby board, which is not the board the override held.
C3_Witness ==
  /\ ev.type = "board_update"
  /\ \E pid \in ev.overridden \ DOMAIN ev.protected :
       /\ HasPlayer(TheLobby(ev.lid).players, pid)
       /\ EffectiveBoard(ev.lid, pid) = TheLobby(ev.lid).board

\* C7: while a timer task is in its bonus time phase, a step changes the
\* bonus_time of a player of the task's lobby by a decrement of 1 or not at
\* all.
C7_BonusTimeOnlyCountsDown ==
  [][\A t \in TaskIds :
       (tasks[t].pc = "bonus" /\ objs'[tasks[t].obj] # Free) =>
         LET before == objs[tasks[t].obj].players
             after == objs'[tasks[t].obj].players
         IN \A pid \in PlayerIds :
              (HasPlayer(before, pid) /\ HasPlayer(after, pid)) =>
                after[PlayerIndex(after, pid)].bonus_time \in
                  { before[PlayerIndex(before, pid)].bonus_time,
                    before[PlayerIndex(before, pid)].bonus_time - 1 }]_vars

\* C8: no player's bonus_time is negative, and a player whose time is up has
\* no bonus_time.
C8_TimeUpMeansNoBonus ==
  \A lobby \in Lobbies : \A n \in 1..Len(lobby.players) :
    /\ lobby.players[n].bonus_time >= 0
    /\ lobby.players[n].is_time_up => lobby.players[n].bonus_time = 0


\* The characters a tile contributes to a word.
TileChars(tile) == IF tile = "QU" THEN <<"Q","U">> ELSE << tile >>

\* The tiles along a path, concatenated.
RECURSIVE Spelled(_, _)
Spelled(grid, path) ==
  IF path = << >> THEN << >>
  ELSE TileChars(grid[Head(path)[1] + 1][Head(path)[2] + 1]) \o Spelled(grid, Tail(path))

\* A path of cells of the board, each used once, each next to the one before.
WellFormedPath(bg, path) ==
  /\ \A i \in 1..Len(path) :
        /\ path[i][1] \in 0..(bg.size - 1)
        /\ path[i][2] \in 0..(bg.size - 1)
  /\ \A i, j \in 1..Len(path) : i # j => path[i] # path[j]
  /\ \A i \in 2..Len(path) :
        /\ Abs(path[i][1] - path[i - 1][1]) <= 1
        /\ Abs(path[i][2] - path[i - 1][2]) <= 1

FoundBy(lobby, word) ==
  {n \in 1..Len(lobby.players) :
     \E k \in 1..Len(lobby.players[n].found_words) :
        lobby.players[n].found_words[k] = word}

\* The sum, over words, of the score of the word: unique when exactly one
\* player of the lobby holds it.
RECURSIVE FinalScore(_, _)
FinalScore(words, lobby) ==
  IF words = << >> THEN 0
  ELSE CalculateWordScore(Head(words), Cardinality(FoundBy(lobby, Head(words))) = 1)
       + FinalScore(Tail(words), lobby)

\* run_game_loop leaves its timer loops for the summary of a lobby the table
\* holds: finalize_scores runs in this step.
FinalizesIn(lid) ==
  /\ lid \in DOMAIN lobbies
  /\ \E t \in TaskIds :
        /\ tasks[t].lid = lid
        /\ tasks[t].pc \in {"main", "bonus"}
        /\ tasks'[t].pc = "idle"

\* C12: after finalize_scores each player's score is the sum, over the
\* player's found_words, of score(word, is_unique), where is_unique holds
\* exactly when one player of the lobby holds the word; a word two players
\* hold gives each of them the non-unique score.
C12_FinalScoreCountsUniqueness ==
  [][ \A lid \in LobbyIds :
        FinalizesIn(lid) =>
          \A n \in 1..Len(TheLobby(lid).players') :
             TheLobby(lid).players'[n].score
               = FinalScore(TheLobby(lid).players'[n].found_words, TheLobby(lid)') ]_vars

\* A summary in which two players hold TEA, scored 3 for each, and one of them
\* holds STONE alone, scored 10.
C12_Witness ==
  \E lid \in DOMAIN lobbies :
    LET lobby == TheLobby(lid) IN
    /\ lobby.status = "summary"
    /\ Len(lobby.players) = 2
    /\ Cardinality(FoundBy(lobby, <<"T","E","A">>)) = 2
    /\ Cardinality(FoundBy(lobby, <<"S","T","O","N","E">>)) = 1
    /\ \E n \in 1..2 : lobby.players[n].score = 3 /\ lobby.players[3 - n].score = 13


\* The player object of the sender of the word_result in ev, in a lobby table
\* and heap.
Sender(heap, tbl, e) ==
  LET players == heap[tbl[e.lid]].players
  IN players[PlayerIndex(players, e.pid)]

\* C13 as stated: the points of an accepting word_result, and the amount the
\* step adds to the sender's score, are score(word, is_unique = true), and
\* total_score is the sender's score after the addition.
C13_PointsAreUniqueScore ==
  [][ (ev'.type = "word_result" /\ ev'.valid) =>
        /\ ev'.points = CalculateWordScore(Upper(ev'.sub.word), TRUE)
        /\ Sender(objs', lobbies', ev').score
             = Sender(objs, lobbies, ev').score + ev'.points
        /\ ev'.total_score = Sender(objs', lobbies', ev').score ]_vars

\* C13 amended: the points of an accepting word_result, and the amount the
\* step adds to the sender's score, are score(word, is_unique = false), and
\* total_score is the sender's score after the addition.
C13_PointsAreNonUniqueScore ==
  [][ (ev'.type = "word_result" /\ ev'.valid) =>
        /\ ev'.points = CalculateWordScore(Upper(ev'.sub.word), FALSE)
        /\ Sender(objs', lobbies', ev').score
             = Sender(objs, lobbies, ev').score + ev'.points
        /\ ev'.total_score = Sender(objs', lobbies', ev').score ]_vars

\* A second word accepted, whose unique score is not its non-unique score.
C13_Witness ==
  /\ ev.type = "word_result"
  /\ ev.valid
  /\ ev.total_score > ev.points
  /\ ev.points > 0
  /\ CalculateWordScore(Upper(ev.sub.word), TRUE) # ev.points


\* floor(base * multiplier) for a word of the given base score and length, the
\* multiplier being 0 below 3 letters, 1.0, 1.2, 1.5 and 2.0 for 3, 4, 5 and 6
\* letters, and 3.0 from 7 letters on.
FlooredProduct(base, length) ==
  CASE length < 3 -> 0
    [] length = 3 -> base
    [] length = 4 -> (base * 12) \div 10
    [] length = 5 -> (base * 15) \div 10
    [] length = 6 -> base * 2
    [] OTHER -> base * 3

\* C14: calculate_word_score returns floor(base * multiplier) for a word that
\* is not unique and floor(floor(base * multiplier) * 1.5) for a unique one.
C14_ScoreIsFlooredTwice ==
  ev.type = "calculate_word_score" =>
    LET w == Upper(ev.sub.word)
        floored == FlooredProduct(BaseScore(w), Len(w))
    IN ev.points = IF ev.valid THEN (floored * 3) \div 2 ELSE floored

\* A unique word of four letters for which both conversions round down, and a
\* result that is not the floor of base * 1.2 * 1.5.
C14_Witness ==
  /\ ev.type = "calculate_word_score"
  /\ ev.valid
  /\ Len(ev.sub.word) = 4
  /\ LET base == BaseScore(Upper(ev.sub.word)) IN
     /\ (base * 12) % 10 # 0
     /\ ((base * 12) \div 10) % 2 = 1
     /\ ev.points # (base * 18) \div 10


\* C15: a rejected submission leaves found_words, scores, powerups and every
\* other part of the server's state as they were and sends no score_update:
\* the word_result with valid = false is all it causes.
C15_RejectionChangesNothing ==
  [][ (ev'.type = "word_result" /\ ~ev'.valid) =>
        /\ UNCHANGED core
        /\ ev'.score_update = {} ]_vars

\* A submission rejected in a round in which a player holds a word, a score
\* and a powerup.
C15_Witness ==
  /\ ev.type = "word_result"
  /\ ~ev.valid
  /\ ev.status = "playing"
  /\ \E lid \in DOMAIN lobbies :
       /\ TheLobby(lid).status = "playing"
       /\ \E n \in 1..Len(TheLobby(lid).players) :
            /\ TheLobby(lid).players[n].found_words # << >>
            /\ TheLobby(lid).players[n].score > 0
            /\ TheLobby(lid).players[n].powerups # << >>

\* C16: a submit_word frame that arrives while its lobby is in lobby,
\* countdown or summary is answered with valid = false and changes nothing.
C16_AcceptedOnlyWhilePlaying ==
  [][ (ev'.type = "word_result" /\ ev'.status \in {"lobby", "countdown", "summary"}) =>
        /\ ~ev'.valid
        /\ UNCHANGED core
        /\ ev'.score_update = {} ]_vars

\* A submission rejected in the summary of a round on whose board TEA lies
\* along its path and in which no word was found.
C16_Witness ==
  /\ ev.type = "word_result"
  /\ ~ev.valid
  /\ ev.status = "summary"
  /\ board_gen # NoBoardGen
  /\ IsWordOnBoard(board_gen, <<"T","E","A">>, PathTea)
  /\ \A lid \in DOMAIN lobbies :
       \A n \in 1..Len(TheLobby(lid).players) :
          TheLobby(lid).players[n].found_words = << >>


\* State held under a lobby id outside the lobby table: a freeze, blocked
\* cells, an armed lock, a board override or the challenges of a game.
KeyedState(lid) ==
  \/ lid \in DOMAIN active_freezes /\ active_freezes[lid] # {}
  \/ lid \in DOMAIN blocked_cells /\ blocked_cells[lid] # {}
  \/ DOMAIN Entries(armed_locks, lid) # {}
  \/ DOMAIN Entries(player_boards, lid) # {}
  \/ lid \in game_challenges

\* C17: the step that removes a lobby from the table (its last player
\* disconnects) leaves no freeze, blocked cell, armed lock, board override or
\* challenge attachment under the lobby's id.
C17_DestroyedLobbyLeavesNoState ==
  [][ \A lid \in LobbyIds :
        (lid \in DOMAIN lobbies /\ lid \notin DOMAIN lobbies') => ~KeyedState(lid)' ]_vars


\* The lobby a join_lobby or leave_lobby call names, before and after the call.
Called == objs[lobbies[ev'.lid]]
CalledAfter == objs'[lobbies'[ev'.lid]]

JoinsExisting == ev'.type = "join_lobby" /\ ev'.lid \in DOMAIN lobbies

DistinctIds(players) ==
  \A i, j \in 1..Len(players) : i # j => players[i].id # players[j].id

\* C18: a lobby never has more than 10 players, and a join of a lobby that has
\* 10 players is refused and leaves the player list as it was.
C18_AtMostTenPlayers ==
  [][ /\ \A lid \in DOMAIN lobbies : Len(TheLobby(lid).players) <= 10
      /\ \A lid \in DOMAIN lobbies' : Len(TheLobby(lid).players') <= 10
      /\ (JoinsExisting /\ Len(Called.players) = 10) =>
            /\ ~ev'.valid
            /\ CalledAfter.players = Called.players ]_vars

\* An id that is not in the lobby was refused by a lobby of 10 players.
C18_Witness ==
  /\ ev.type = "join_lobby"
  /\ ~ev.valid
  /\ ev.lid \in DOMAIN lobbies
  /\ Len(TheLobby(ev.lid).players) = 10
  /\ ~HasPlayer(TheLobby(ev.lid).players, ev.pid)

\* C19 as stated: a join under an id the lobby already holds succeeds and
\* leaves the player list, whose ids are pairwise distinct, as it was,
\* whatever the number of players.
C19_DuplicateJoinSucceeds ==
  [][ (JoinsExisting /\ HasPlayer(Called.players, ev'.pid)) =>
        /\ ev'.valid
        /\ CalledAfter.players = Called.players
        /\ DistinctIds(CalledAfter.players) ]_vars

\* C19 amended: a join under an id the lobby already holds leaves the player
\* list, whose ids are pairwise distinct, as it was; it succeeds when the lobby
\* has fewer than 10 players and is refused when the lobby has 10.
C19_DuplicateJoinBelowTheCap ==
  [][ (JoinsExisting /\ HasPlayer(Called.players, ev'.pid)) =>
        /\ ev'.valid <=> Len(Called.players) < 10
        /\ CalledAfter.players = Called.players
        /\ DistinctIds(CalledAfter.players) ]_vars

\* A join that succeeded under the id of a player who is not the last of the
\* list, so was in the lobby before the call.
C19_Witness ==
  /\ ev.type = "join_lobby"
  /\ ev.valid
  /\ HasPlayer(TheLobby(ev.lid).players, ev.pid)
  /\ PlayerIndex(TheLobby(ev.lid).players, ev.pid) < Len(TheLobby(ev.lid).players)

\* The players that stay when pid leaves, in the order in which they joined.
Remaining(players, pid) == SelectSeq(players, LAMBDA q : q.id # pid)

\* C20: a lobby of the table has a player, and its host is one of its
\* players; when the host leaves and a player stays, the one who joined
\* first becomes the host; when the last player leaves, the lobby leaves the
\* table.
C20_HostIsEarliestRemaining ==
  [][ /\ \A lid \in DOMAIN lobbies' :
            /\ TheLobby(lid).players' # << >>
            /\ HasPlayer(TheLobby(lid).players', TheLobby(lid).host_id')
      /\ (ev'.type = "leave_lobby" /\ ev'.lid \in DOMAIN lobbies) =>
            LET rest == Remaining(Called.players, ev'.pid) IN
            IF rest = << >> THEN ev'.lid \notin DOMAIN lobbies'
            ELSE /\ ev'.lid \in DOMAIN lobbies'
                 /\ CalledAfter.players = rest
                 /\ CalledAfter.host_id = IF Called.host_id = ev'.pid THEN rest[1].id
                                      ELSE Called.host_id ]_vars

\* The host left a lobby in which two players or more stay.
C20_Witness ==
  /\ ev.type = "leave_lobby"
  /\ ev.valid
  /\ ev.pid = Joiners[1]
  /\ ev.lid \in DOMAIN lobbies
  /\ Len(TheLobby(ev.lid).players) >= 2
  /\ ~HasPlayer(TheLobby(ev.lid).players, ev.pid)
  /\ TheLobby(ev.lid).host_id = Joiners[2]


\* C21: the board size of a lobby changes only while the lobby is in status
\* lobby; in countdown, playing and summary no frame changes it.
C21_BoardSizeSetOnlyInLobby ==
  [][ \A lid \in DOMAIN lobbies :
        ( /\ lid \in DOMAIN lobbies'
          /\ lobbies'[lid] = lobbies[lid]
          /\ objs'[lobbies[lid]].board_size # objs[lobbies[lid]].board_size )
        => objs[lobbies[lid]].status = "lobby" ]_vars

\* C23: a reset_game frame that arrives while the lobby is not in summary
\* changes no lobby and no player state.
C23_ResetOnlyInSummary ==
  [][ \A lid \in LobbyIds, pid \in PlayerIds :
        (ResetGame(lid, pid) /\ TheLobby(lid).status # "summary")
        => UNCHANGED objs ]_vars


\* C22: a want_play_again frame takes a lobby from summary back to the lobby
\* phase only when every player of the lobby has sent want_play_again since
\* the lobby entered that summary (the sender with this very frame).
C22_ResetNeedsEveryPlayer ==
  [][ \A lid \in LobbyIds, pid \in PlayerIds :
        ( /\ WantPlayAgain(lid, pid)
          /\ TheLobby(lid).status = "summary"
          /\ objs'[lobbies[lid]].status = "lobby" )
        => \A n \in 1..Len(TheLobby(lid).players) :
              \/ TheLobby(lid).players[n].sent_play_again
              \/ TheLobby(lid).players[n].id = pid ]_vars


\* C24: a frame that lacks a field of its intent, or whose type is unknown,
\* changes no lobby state and leaves the sender's connection open, so that the
\* sender's later frames are still received.
C24_BadFrameIsIgnored ==
  [][ \A lid \in LobbyIds, pid \in PlayerIds :
        (MalformedFrame(lid, pid) \/ UnknownFrame(lid, pid))
        => /\ UNCHANGED << objs, lobbies >>
           /\ << lid, pid >> \in conns' ]_vars


\* C25: a freeze frame of a player who holds a freeze adds exactly 10 to that
\* player's bonus_time and changes no other player's bonus_time and not the
\* lobby's timer; and the tick that takes the main timer to 0 marks as out of
\* time exactly the players without bonus time.
C25_FreezeAddsTenToItsUser ==
  [][ /\ \A lid \in LobbyIds, pid \in PlayerIds :
           ( /\ lid \in DOMAIN lobbies
             /\ HasPlayer(TheLobby(lid).players, pid)
             /\ Holds(TheLobby(lid).players[PlayerIndex(TheLobby(lid).players, pid)].powerups,
                      "freeze")
             /\ UsePowerup(lid, pid, "freeze", NoCells, BoardA5) )
           => LET o == lobbies[lid]
                  k == PlayerIndex(objs[o].players, pid)
              IN /\ objs'[o].timer = objs[o].timer
                 /\ \A n \in 1..Len(objs[o].players) :
                      objs'[o].players[n].bonus_time =
                         IF n = k THEN objs[o].players[n].bonus_time + FreezeBonusSeconds
                         ELSE objs[o].players[n].bonus_time
      /\ \A t \in TaskIds :
           ( /\ TaskMainTick(t)
             /\ tasks[t].lid \in DOMAIN lobbies
             /\ objs[tasks[t].obj].timer = 1
             /\ objs'[tasks[t].obj] # Free )
           => LET o == tasks[t].obj
              IN \A n \in 1..Len(objs[o].players) :
                   objs'[o].players[n].is_time_up = ~(objs[o].players[n].bonus_time > 0)
    ]_vars

\* The bonus time phase of a round of two players: one used a freeze and is
\* still playing, the other is out of time.
C25_Witness ==
  \E lid \in DOMAIN lobbies :
     /\ \E t \in TaskIds : tasks[t].pc = "bonus" /\ tasks[t].lid = lid
     /\ TheLobby(lid).timer = 0
     /\ Len(TheLobby(lid).players) = 2
     /\ \E a, b \in 1..2 :
          /\ TheLobby(lid).players[a].bonus_time = FreezeBonusSeconds
          /\ ~TheLobby(lid).players[a].is_time_up
          /\ lid \in DOMAIN active_freezes
          /\ TheLobby(lid).players[a].id \in active_freezes[lid]
          /\ TheLobby(lid).players[b].bonus_time = 0
          /\ TheLobby(lid).players[b].is_time_up


\* C26: an accepted word of 5 letters or more appends exactly one powerup, a
\* freeze, a blowup or a shuffle, to its player's inventory; a shorter accepted
\* word leaves the inventory as it is; and no step ever makes an inventory
\* hold a lock.
C26_PowerupsEarnedByLongWords ==
  [][ /\ (ev'.type = "word_result" /\ ev'.valid) =>
           LET o == lobbies[ev'.lid]
               k == PlayerIndex(objs[o].players, ev'.pid)
               before == objs[o].players[k].powerups
               after == objs'[o].players[k].powerups
           IN IF Len(ev'.sub.word) >= 5
              THEN \E x \in {"freeze", "blowup", "shuffle"} : after = Append(before, x)
              ELSE after = before
      /\ \A lid \in DOMAIN lobbies' :
           \A n \in 1..Len(objs'[lobbies'[lid]].players) :
              ~Holds(objs'[lobbies'[lid]].players[n].powerups, "lock")
    ]_vars

\* STONE or TONES just accepted: the powerup of the word_result is the last of
\* the sender's inventory.
C26_Witness ==
  /\ ev.type = "word_result"
  /\ ev.valid
  /\ Len(ev.sub.word) = 5
  /\ ev.powerup \in {"freeze", "blowup", "shuffle"}
  /\ LET inv == TheLobby(ev.lid).players[PlayerIndex(TheLobby(ev.lid).players, ev.pid)].powerups
     IN inv # << >> /\ inv[Len(inv)] = ev.powerup


\* C27: a blowup frame of a player who holds a blowup blocks exactly 4
\* distinct cells, each of them a cell of the lobby's board: its row and its
\* column are at least 0 and below the lobby's board size.
C27_BlockedCellsOnTheBoard ==
  [][ \A lid \in LobbyIds, pid \in PlayerIds, cells \in BlowupChoices :
        ( /\ lid \in DOMAIN lobbies
          /\ HasPlayer(TheLobby(lid).players, pid)
          /\ Holds(TheLobby(lid).players[PlayerIndex(TheLobby(lid).players, pid)].powerups,
                   "blowup")
          /\ UsePowerup(lid, pid, "blowup", cells, BoardA5) )
        => /\ Cardinality(blocked_cells'[lid]) = 4
           /\ \A c \in blocked_cells'[lid] :
                /\ c[1] >= 0 /\ c[1] < TheLobby(lid).board_size
                /\ c[2] >= 0 /\ c[2] < TheLobby(lid).board_size ]_vars


\* C28: on the grid generate() returns, accepted as rolled or repaired, every
\* consonant cell has a vowel among its up to 8 neighbours and every Q cell
\* has a U among them.
C28_GeneratedBoardIsPlayable ==
  (ev.type = "generate" /\ ev.pc = "returned")
  => /\ GetAllLandlockedConsonants(board_gen.grid, board_gen.size) = {}
     /\ FindQsWithoutU(board_gen.grid, board_gen.size) = {}


\* C29: a lobby's status becomes countdown only from lobby; and a
\* toggle_ready frame that arrives while the lobby is in countdown, playing or
\* summary starts no timer task, whether or not it leaves every player ready.
C29_CountdownOnlyFromLobby ==
  [][ /\ \A lid \in DOMAIN lobbies :
           ( /\ lid \in DOMAIN lobbies'
             /\ lobbies'[lid] = lobbies[lid]
             /\ objs'[lobbies[lid]].status = "countdown"
             /\ objs[lobbies[lid]].status # "countdown" )
           => objs[lobbies[lid]].status = "lobby"
      /\ \A lid \in LobbyIds, pid \in PlayerIds :
           (ToggleReady(lid, pid) /\ TheLobby(lid).status # "lobby")
           => tasks' = tasks ]_vars


\* C30: at most one timer task is running for a lobby id: of the tasks that
\* have begun their countdown and not ended, no two were started for the same
\* lobby id.
C30_OneTimerTaskPerLobby ==
  \A lid \in LobbyIds :
     Cardinality({t \in TaskIds :
                    tasks[t].pc \in {"countdown", "main", "bonus"} /\ tasks[t].lid = lid}) <= 1

\* A running timer task whose lobby was destroyed: the object the task looked
\* up is no longer the one the table holds under the task's lobby id.
Orphaned(t) ==
  /\ tasks[t].pc \in {"countdown", "main", "bonus"}
  /\ (tasks[t].lid \in DOMAIN lobbies => lobbies[tasks[t].lid] # tasks[t].obj)

\* A step of run_game_loop in task t.
TaskStep(t) ==
  \/ \E grid \in AllBoards : TaskCountdown(t, grid)
  \/ TaskMainTick(t)
  \/ TaskBonusTick(t)

\* The step runs the summary phase of task t: finalize_scores on the lobby the
\* table holds under the task's id, and the game_end broadcast.
EndsRound(t) ==
  /\ tasks[t].pc \in {"main", "bonus"}
  /\ tasks[t].lid \in DOMAIN lobbies
  /\ tasks'[t].pc = "idle"

\* C31: a step of a timer task whose lobby was destroyed changes no lobby of
\* the lobby table, finalizes no scores and broadcasts no game_end, also when
\* the table holds a new lobby under the same id.
C31_OrphanedTaskIsQuiet ==
  [][ \A t \in TaskIds :
        (Orphaned(t) /\ TaskStep(t)) =>
           /\ \A lid \in DOMAIN lobbies : objs'[lobbies[lid]] = objs[lobbies[lid]]
           /\ ~EndsRound(t) ]_vars

\* C32: the summary phase of a round runs once: a timer task of a lobby of
\* the table runs finalize_scores, the high-score updates and the game_end
\* broadcast on entering summary, never for a lobby that is in summary
\* already.
C32_RoundFinalizedOnce ==
  [][ \A t \in TaskIds :
        (~Orphaned(t) /\ TaskStep(t) /\ EndsRound(t)) =>
           objs[tasks[t].obj].status # "summary" ]_vars

\* C33: a round that has entered playing reaches summary, unless the lobby
\* loses its last player and leaves the table: from every state in which a
\* lobby of the table is playing, a state follows in which the lobby id holds
\* a lobby in summary or no lobby.
C33_RoundReachesSummary ==
  \A lid \in LobbyIds :
     (lid \in DOMAIN lobbies /\ TheLobby(lid).status = "playing")
       ~> (lid \in DOMAIN lobbies => TheLobby(lid).status = "summary")

\* The round has ended in summary after a freeze gave the player bonus time.
C33_Witness ==
  /\ "L1" \in DOMAIN lobbies
  /\ TheLobby("L1").status = "summary"
  /\ \A t \in TaskIds : tasks[t].pc = "idle"
  /\ "L1" \in DOMAIN active_freezes
  /\ "p1" \in active_freezes["L1"]

\* The step broadcasts waiting_phase: task t leaves the main timer loop for
\* the bonus time loop.
WaitingPhaseEmitted(t) == tasks[t].pc = "main" /\ tasks'[t].pc = "bonus"

\* A player of the sequence has bonus time left.
BonusTimeLeft(players) ==
  {n \in 1..Len(players) : players[n].bonus_time # 0} # {}

\* C34: when a tick of the lobby's timer task takes the main timer to 0 and no
\* player has bonus time, the lobby is in summary after the step and no
\* waiting_phase is sent; when a player has bonus time, exactly the players
\* without are marked is_time_up, waiting_phase lists them as finished and the
\* others with their bonus time, and the lobby is not yet in summary.  A lobby
\* enters summary only with every player's bonus time at 0.
C34_WaitingPhaseOrSummary ==
  [][ /\ \A t \in TaskIds :
           (~Orphaned(t) /\ TaskMainTick(t) /\ objs'[tasks[t].obj].timer = 0) =>
              LET before == objs[tasks[t].obj].players
                  after == objs'[tasks[t].obj].players
                  out == {before[n].id : n \in {m \in 1..Len(before) :
                                                   before[m].bonus_time = 0}}
              IN IF ~BonusTimeLeft(before)
                 THEN /\ objs'[tasks[t].obj].status = "summary"
                      /\ ~WaitingPhaseEmitted(t)
                 ELSE /\ WaitingPhaseEmitted(t)
                      /\ \A n \in 1..Len(after) :
                            after[n].is_time_up <=> before[n].bonus_time = 0
                      /\ PlayersFinished(after) = out
                      /\ PlayersWithBonus(after) = PlayersWithBonus(before)
                      /\ objs'[tasks[t].obj].status # "summary"
      /\ \A lid \in (DOMAIN lobbies) \cap (DOMAIN lobbies') :
           (objs[lobbies[lid]].status # "summary"
              /\ objs'[lobbies'[lid]].status = "summary") =>
              ~BonusTimeLeft(objs'[lobbies'[lid]].players) ]_vars

\* The tick that took the main timer to 0 sent waiting_phase: p2 is finished
\* and p1 plays on with the 10 seconds of a freeze.
C34_Witness ==
  /\ "L1" \in DOMAIN lobbies
  /\ TheLobby("L1").status = "playing"
  /\ TheLobby("L1").timer = 0
  /\ \E t \in TaskIds : tasks[t].pc = "bonus" /\ tasks[t].obj = lobbies["L1"]
  /\ PlayersFinished(TheLobby("L1").players) = {"p2"}
  /\ PlayersWithBonus(TheLobby("L1").players)
        = {[player_id |-> "p1", bonus_time |-> FreezeBonusSeconds]}

C36_RoundStartsFresh ==
  [][ \A lid \in (DOMAIN lobbies) \cap (DOMAIN lobbies') :
        (objs[lobbies[lid]].status # "playing"
           /\ objs'[lobbies'[lid]].status = "playing") =>
           \A n \in 1..Len(objs'[lobbies'[lid]].players) :
              /\ objs'[lobbies'[lid]].players[n].score = 0
              /\ objs'[lobbies'[lid]].players[n].found_words = << >>
              /\ objs'[lobbies'[lid]].players[n].powerups = << >> ]_vars

\* C37: no submission of a player whose is_time_up flag is set is accepted: a
\* word_result that accepts a word is never sent to such a player, so the
\* player's found_words and score stay as they are until finalization.
C37_NoWordAfterTimeUp ==
  [][ (ev'.type = "word_result" /\ ev'.valid) =>
         ~Sender(objs, lobbies, ev').is_time_up ]_vars

\* C38: the timer of a lobby is never negative, and no timer_update carries a
\* negative value.
C38_TimerNeverNegative ==
  /\ \A lobby \in Lobbies : lobby.timer >= 0
  /\ ev.type = "timer_update" => ev.timer >= 0

\* C39: a socket whose connect attempt was rejected is not retained by the
\* broker: no socket that the endpoint closed is in the recipient set of a
\* lobby id, and every lobby id with a recipient set has a socket in its
\* receive loop.
C39_RejectedSocketNotRetained ==
  /\ \A c \in conns : c[4] # "closed"
  /\ \A lid \in RegisteredLobbyIds : \E c \in conns : c[1] = lid /\ c[4] = "open"

\* C40: while an accepted socket for a player id is open in a lobby, the
\* lobby is in the table and has a player of that id.
C40_OpenSocketHasPlayer ==
  \A c \in conns :
     c[4] = "open" =>
        /\ c[1] \in DOMAIN lobbies
        /\ HasPlayer(TheLobby(c[1]).players, c[2])

=============================================================================
